---------------------------- MODULE Spec2Model ----------------------------
(***************************************************************************)
(* Model of the debug-probe session and execution-control layer of         *)
(* scripts/pyocd_tool.py (and the series sampler of mcp/embedded_server.py).*)
(*                                                                         *)
(* One long-lived process (the MCP server imports pyocd_tool and runs the  *)
(* cmd_* handlers in-process) executes commands one after another against  *)
(* one probe and its target.  A command is: resolve_probe, optional symbol *)
(* resolution, open_session, then the body inside try, then the finally    *)
(* that closes the session.  The body of every handler is written down as  *)
(* the sequence of target operations it issues (Prog); ExecOp executes one *)
(* operation per step, and an operation that can raise either succeeds or  *)
(* raises.                                                                 *)
(*                                                                         *)
(* Failure model of the probe driver: data transfers (memory and register  *)
(* accesses outside a try/except), reset, flash programming, stepping and  *)
(* breakpoint/watchpoint set/remove may raise; core.halt(), core.resume(), *)
(* is_halted(), get_state() and the session.close() of a command take      *)
(* effect.  A Session whose open() raised is not open.                     *)
(*                                                                         *)
(* Time is counted in ticks; one polling sleep (10 ms) lasts PollSleep     *)
(* ticks and the clock advances only while the handler sleeps.             *)
(*                                                                         *)
(* Spec follows the commands at the level of sessions and run state.  The  *)
(* data a call computes is followed under separate specifications, each    *)
(* with its own variable: SpecWrite (the words of cmd_write), SpecRegs     *)
(* (the register snapshot loop), SpecFault (the fault decoder of           *)
(* _read_fault_info) and SpecProbe (resolve_probe on a probe list).        *)
(* SpecRegistry follows list_probes over the probe cache file, SpecWriters *)
(* two processes updating that file, SpecSymbols the symbol lookup of      *)
(* _resolve_symbols, SpecStep the records of cmd_step, and SpecChecksum    *)
(* the snapshots of scripts/lib_checksum.py under the session hooks.       *)
(* SpecBlocks follows the bytes of _read_blocks, SpecIdcode the decode of  *)
(* the device identifier in detect_mcu_from_idcode.                        *)
(***************************************************************************)
EXTENDS Integers, Sequences, FiniteSets, TLC

\* ---------------------------------------------------------------- bounds
MaxTimeout == 3
PollSleep == 2
MaxWrites == 1
MaxBlocks == 2
MaxRepeat == 2
MaxSteps == 2
MaxLeaked == 2
WordBits == 1
MaxWords == 2
MaxFailedReads == 2
MaxFaultBits == 2
MaxProbes == 2
MaxCalls == 2
MaxEntryLen == 2
MaxSymbols == 2
MaxNames == 2
MaxStarts == 2
MaxEdits == 2
MaxBlockBytes == 5

\* ------------------------------------------------- open errors, classified
\* An error message is a sequence of words; str(err).lower() lowers each word
\* and `s in err_str` is a search for the contiguous words of the pattern.
Lower(w) ==
    CASE w = "No" -> "no"
      [] w = "Unknown" -> "unknown"
      [] w = "Invalid" -> "invalid"
      [] w = "Probe" -> "probe"
      [] OTHER -> w

LowerMsg(m) == [i \in 1..Len(m) |-> Lower(m[i])]

Contains(m, pat) ==
    \E i \in 1..(Len(m) - Len(pat) + 1) :
        \A k \in 1..Len(pat) : m[i + k - 1] = pat[k]

non_recoverable ==
    << <<"no", "available", "debug", "probe">>,
       <<"probe", "not", "found">>,
       <<"unknown", "target">>,
       <<"invalid">>,
       <<"not", "supported">> >>

\* Mutant: the search without str(err).lower().
IsNonRecoverable_CaseSensitive(err) ==
    \E i \in 1..Len(non_recoverable) : Contains(err, non_recoverable[i])

IsNonRecoverable(err) ==
    \E i \in 1..Len(non_recoverable) : Contains(LowerMsg(err), non_recoverable[i])

\* Messages the driver can raise from Session.open().
NonRecoverableMsgs ==
    { <<"No", "available", "debug", "probe">>,
      <<"Probe", "not", "found">>,
      <<"Unknown", "target">>,
      <<"Invalid", "option">>,
      <<"mode", "not", "supported">> }

RecoverableMsgs ==
    { <<"transfer", "fault">>, <<"No", "ACK">> }

OpenErrors == NonRecoverableMsgs \cup RecoverableMsgs

NoErr == <<>>

\* ---------------------------------------------------------------- commands
Commands ==
    { "status", "flash", "read", "read-symbol", "read-symbols", "regs", "reset",
      "run-read", "step", "break", "wait-halt", "watch", "write", "write-reg",
      "halt", "resume", "bp-set", "bp-clear", "diagnose", "series", "dma" }

\* The connect_mode each handler passes to open_session.
ConnectMode(c) ==
    IF c \in {"flash", "run-read", "break", "watch", "bp-set", "bp-clear"}
    THEN "halt" ELSE "attach"

\* Handlers that resolve symbols from the ELF before opening the session.
ResolvesSymbols(c) == c \in {"read-symbol", "read-symbols", "series"}

DefaultArgs ==
    [ timeout |-> 0, do_reset |-> FALSE, set_pc |-> FALSE, nwrites |-> 0,
      nblocks |-> 1, repeat |-> 1, halt |-> TRUE, count |-> 1, no_reset |-> FALSE ]

ArgsFor(c) ==
    CASE c = "break" ->
           { [DefaultArgs EXCEPT !.timeout = t, !.do_reset = r, !.set_pc = p, !.nwrites = w] :
               t \in 0..MaxTimeout, r \in BOOLEAN, p \in BOOLEAN, w \in 0..MaxWrites }
      [] c \in {"wait-halt", "watch"} ->
           { [DefaultArgs EXCEPT !.timeout = t] : t \in 0..MaxTimeout }
      [] c = "read-symbols" ->
           { [DefaultArgs EXCEPT !.nblocks = n] : n \in 1..MaxBlocks }
      [] c = "series" ->
           { [DefaultArgs EXCEPT !.nblocks = n, !.repeat = r, !.halt = h] :
               n \in 1..MaxBlocks, r \in 1..MaxRepeat, h \in BOOLEAN }
      [] c = "step" ->
           { [DefaultArgs EXCEPT !.count = n] : n \in 1..MaxSteps }
      [] c = "flash" ->
           { [DefaultArgs EXCEPT !.no_reset = b] : b \in BOOLEAN }
      [] OTHER -> { DefaultArgs }

\* ---------------------------------------------------------------- programs
Rep(n, s) == IF n = 0 THEN <<>> ELSE [i \in 1..(n * Len(s)) |-> s[((i - 1) % Len(s)) + 1]]

\* _read_blocks(target, core, blocks, halt=...): entry (state query and halt),
\* one read per block inside try, the finally that resumes.
read_blocks(n) == <<"rb_enter">> \o Rep(n, <<"rb_read">>) \o <<"rb_finally">>

cmd_status == <<"get_state">>

cmd_flash(a) == <<"program">> \o (IF a.no_reset THEN <<>> ELSE <<"reset">>)

cmd_read == read_blocks(1)

cmd_read_symbols(a) == read_blocks(a.nblocks)

\* Mutant: the handler without the closing core.resume().
cmd_regs_NoResume == <<"was_halted", "halt_unless_was", "read_regs">>

cmd_regs == <<"was_halted", "halt_unless_was", "read_regs", "resume_unless_was">>

cmd_reset == <<"reset", "get_state">>

cmd_run_read == <<"reset", "resume", "sleep", "halt", "read_mem", "resume">>

cmd_step(a) ==
    <<"halt_unless_halted">> \o Rep(a.count, <<"read_reg", "step", "read_reg">>)
        \o <<"read_regs">>

\* Mutant: the handler without the second core.set_breakpoint(addr).
cmd_break_run_NoRearm(a) ==
    <<"set_bp">> \o Rep(a.nwrites, <<"write32">>)
        \o (IF a.do_reset THEN <<"reset_and_halt">>
            ELSE IF a.set_pc THEN <<"write_reg">> ELSE <<>>)
        \o <<"resume", "t0", "poll", "halt_unless_hit", "remove_bp", "read_regs",
             "fault_info_if_hit">>

\* Mutant: the handler without core.remove_breakpoint(addr).
cmd_break_run_NoRemove(a) ==
    <<"set_bp">> \o Rep(a.nwrites, <<"write32">>)
        \o (IF a.do_reset THEN <<"reset_and_halt", "set_bp">>
            ELSE IF a.set_pc THEN <<"write_reg">> ELSE <<>>)
        \o <<"resume", "t0", "poll", "halt_unless_hit", "read_regs", "fault_info_if_hit">>

cmd_break_run(a) ==
    <<"set_bp">> \o Rep(a.nwrites, <<"write32">>)
        \o (IF a.do_reset THEN <<"reset_and_halt", "set_bp">>
            ELSE IF a.set_pc THEN <<"write_reg">> ELSE <<>>)
        \o <<"resume", "t0", "poll", "halt_unless_hit", "remove_bp", "read_regs",
             "fault_info_if_hit">>

cmd_wait_halt == <<"t0", "poll", "halt_unless_hit", "read_regs">>

\* Mutant: the watchpoint is removed before the forced halt.
cmd_watch_RemoveFirst ==
    <<"set_wp", "resume", "t0", "poll", "remove_wp", "halt_unless_hit", "read_regs",
      "read_mem">>

cmd_watch ==
    <<"set_wp", "resume", "t0", "poll", "halt_unless_hit", "remove_wp", "read_regs",
      "read_mem">>

cmd_write == <<"was_halted", "halt_unless_was", "write_mem", "read_mem", "resume_unless_was">>

cmd_write_reg == <<"halt_unless_halted", "read_reg", "write_reg", "read_reg">>

cmd_halt == <<"was_halted", "halt_unless_was", "read_reg">>

cmd_resume == <<"was_halted", "read_pc_if_was", "resume">>

cmd_bp_set == <<"set_bp">>

cmd_bp_clear == <<"remove_bp">>

cmd_diagnose == <<"was_halted", "halt_unless_was", "read_regs", "fault_info">>

\* embedded_server._read_symbols_series_data: repeat samples, sleeping between.
read_symbols_series_data(a) ==
    [i \in 1..(a.repeat * (a.nblocks + 3) - 1) |->
        LET s == read_blocks(a.nblocks) \o <<"sleep">>
        IN  s[((i - 1) % Len(s)) + 1]]

\* embedded_server.read_dma_audio
read_dma_audio == <<"halt", "read_mem", "resume">>

Body(c, a) ==
    CASE c = "status" -> cmd_status
      [] c = "flash" -> cmd_flash(a)
      [] c \in {"read", "read-symbol"} -> cmd_read
      [] c = "read-symbols" -> cmd_read_symbols(a)
      [] c = "regs" -> cmd_regs
      [] c = "reset" -> cmd_reset
      [] c = "run-read" -> cmd_run_read
      [] c = "step" -> cmd_step(a)
      [] c = "break" -> cmd_break_run(a)
      [] c = "wait-halt" -> cmd_wait_halt
      [] c = "watch" -> cmd_watch
      [] c = "write" -> cmd_write
      [] c = "write-reg" -> cmd_write_reg
      [] c = "halt" -> cmd_halt
      [] c = "resume" -> cmd_resume
      [] c = "bp-set" -> cmd_bp_set
      [] c = "bp-clear" -> cmd_bp_clear
      [] c = "diagnose" -> cmd_diagnose
      [] c = "series" -> read_symbols_series_data(a)
      [] c = "dma" -> read_dma_audio


\* ------------------------------------------------------------------- state
VARIABLES
    pc,         \* position of the process
    cmd,        \* the handler being run ("none" when idle)
    args,       \* its arguments
    ip,         \* index in Prog of the next operation of the body
    tstate,     \* run state of the target: "RUNNING" or "HALTED"
    bp,         \* the breakpoint at the requested address is armed
    wp,         \* the watchpoint is armed
    mainOpen,   \* the Session open_session returned to the handler is open
    closes,     \* times the handler called close() on that Session
    recOpen,    \* the under-reset recovery Session of open_session is open
    detOpen,    \* the ID-code detection Session of list_probes is open
    leaked,     \* Sessions left open by calls that have already returned
    saved_err,  \* open_session: the first attempt's error
    retry_err,  \* open_session: the retry's error
    oslog,      \* open_session: the driver calls it made, in order
    exc,        \* the exception in flight ("none" if none)
    loc,        \* locals of the handler body
    hist,       \* observations of the current call (entry state, resumes, halt time)
    elapsed,    \* ticks since t0
    result,     \* what the handler returned or raised
    write_call, \* cmd_write seen at the level of the words: request, memory, result
    regs_call,  \* one register snapshot loop: names, position, the regs dict
    fault_call, \* one _read_fault_info decode: register values, the fault list
    probe_call, \* one resolve_probe call: the probe list, the request, the outcome
    registry,   \* list_probes calls over the persisted identity cache
    writers,    \* two processes running update_probe_cache on one cache file
    symbols_call, \* one _resolve_symbols call: the nm lines, the names, the outcome
    step_call,  \* one cmd_step call: the target's pc, the step records
    checksum,   \* lib_checksum snapshots of a library and the two hooks
    blocks_call, \* one _read_blocks call: the blocks, the transfers, the result dict
    idcode_call \* one ID-code decode of detect_mcu_from_idcode: the words read, the identity

progVars == << pc, cmd, args, ip, tstate, bp, wp, mainOpen, closes, recOpen, detOpen,
               leaked, saved_err, retry_err, oslog, exc, loc, hist, elapsed, result >>

\* The calls followed at the level of their data, each under its own specification.
dataVars == << write_call, regs_call, fault_call, probe_call, registry, writers,
              symbols_call, step_call, checksum, blocks_call,
              idcode_call >>

vars == << progVars, dataVars >>

\* A data-level variable outside its specification.
NoCall == [ pc |-> "none" ]

sessVars == << mainOpen, closes, recOpen, detOpen, leaked >>
osVars == << saved_err, retry_err, oslog >>
tgtVars == << tstate, bp, wp >>
bodyVars == << loc, hist, elapsed >>

InitLoc ==
    [ was_halted |-> FALSE, did_halt |-> FALSE, hit |-> FALSE, sleepLeft |-> 0,
      regs |-> FALSE, partial |-> FALSE, forced |-> FALSE, fault_info |-> FALSE ]

InitHist ==
    [ entry |-> "none", resumes |-> 0, haltedAt |-> -1, wp_sets |-> 0,
      wp_refused |-> FALSE, detected |-> FALSE, pre |-> << >>,
      bp_at_resume |-> FALSE, wp_removed |-> "no" ]

NoResult ==
    [ status |-> "none", kind |-> "none", first |-> NoErr, retry |-> NoErr,
      msg |-> NoErr, hit |-> FALSE, regs |-> FALSE, fault_info |-> FALSE ]

Failure(kind) == [ NoResult EXCEPT !.status = "error", !.kind = kind ]

Prog == Body(cmd, args)

\* Number of Sessions to the probe that are open.
OpenSessions ==
    leaked + (IF mainOpen THEN 1 ELSE 0) + (IF recOpen THEN 1 ELSE 0)
           + (IF detOpen THEN 1 ELSE 0)

InitProg ==
    /\ pc = "idle"
    /\ cmd = "none"
    /\ args = DefaultArgs
    /\ ip = 1
    /\ tstate \in {"RUNNING", "HALTED"}
    /\ bp = FALSE
    /\ wp = FALSE
    /\ mainOpen = FALSE
    /\ closes = 0
    /\ recOpen = FALSE
    /\ detOpen = FALSE
    /\ leaked = 0
    /\ saved_err = NoErr
    /\ retry_err = NoErr
    /\ oslog = <<>>
    /\ exc = "none"
    /\ loc = InitLoc
    /\ hist = InitHist
    /\ elapsed = 0
    /\ result = NoResult

Init ==
    /\ InitProg
    /\ idcode_call = NoCall
    /\ blocks_call = NoCall
    /\ write_call = NoCall
    /\ regs_call = NoCall
    /\ fault_call = NoCall
    /\ probe_call = NoCall
    /\ registry = NoCall
    /\ writers = NoCall
    /\ symbols_call = NoCall
    /\ step_call = NoCall
    /\ checksum = NoCall

\* ------------------------------------------------------ a command begins
\* main(): commands[args.command](args); the server calls the same handlers.
Begin ==
    /\ pc = "idle"
    /\ leaked < MaxLeaked
    /\ \E c \in Commands : \E a \in ArgsFor(c) :
        /\ cmd' = c
        /\ args' = a
    /\ pc' = "resolve"
    /\ ip' = 1
    /\ closes' = 0
    /\ exc' = "none"
    /\ loc' = InitLoc
    /\ hist' = InitHist
    /\ elapsed' = 0
    /\ result' = NoResult
    /\ saved_err' = NoErr
    /\ retry_err' = NoErr
    /\ oslog' = <<>>
    /\ UNCHANGED << tstate, bp, wp, mainOpen, recOpen, detOpen, leaked >>
    /\ UNCHANGED dataVars

\* ------------------------------------------------- resolve_probe / list_probes
\* list_probes finds the identity in board metadata or the cache: no detection.
\* resolve_probe then returns (uid, mcu) or raises (no probe, ambiguous, no match).
resolve_probe ==
    /\ pc = "resolve"
    /\ \/ /\ pc' = "pre"
          /\ UNCHANGED result
       \/ /\ pc' = "returned"
          /\ result' = Failure("resolve")
    /\ UNCHANGED << cmd, args, ip, tgtVars, sessVars, osVars, exc, bodyVars >>
    /\ UNCHANGED dataVars

\* detect_mcu_from_idcode: session_with_chosen_probe(under-reset) and open().
\* A failed open returns None (the identity stays unknown).
detect_open ==
    /\ pc = "resolve"
    /\ \/ /\ detOpen' = TRUE
          /\ tstate' = "HALTED"
          /\ hist' = [ hist EXCEPT !.detected = TRUE ]
          /\ pc' = "det_read"
       \/ /\ pc' = "det_done"
          /\ UNCHANGED << detOpen, tstate, hist >>
    /\ UNCHANGED << cmd, args, ip, bp, wp, mainOpen, closes, recOpen, leaked,
                    osVars, exc, loc, elapsed, result >>
    /\ UNCHANGED dataVars

\* The CPUID and DBGMCU_IDCODE reads (each in its own try/except), the decode,
\* then the finally: the reset inside try/except, and session.close().
detect_finally ==
    /\ pc = "det_read"
    /\ \/ tstate' = "RUNNING"      \* session.target.reset() succeeded
       \/ UNCHANGED tstate         \* it raised and the except passed
    /\ detOpen' = FALSE
    /\ pc' = "det_done"
    /\ UNCHANGED << cmd, args, ip, bp, wp, mainOpen, closes, recOpen, leaked,
                    osVars, exc, bodyVars, result >>
    /\ UNCHANGED dataVars

\* list_probes returns; resolve_probe goes on with the detected identity, or
\* raises when the identity is still unknown or does not match.
detect_done ==
    /\ pc = "det_done"
    /\ \/ /\ pc' = "pre"
          /\ UNCHANGED result
       \/ /\ pc' = "returned"
          /\ result' = Failure("resolve")
    /\ UNCHANGED << cmd, args, ip, tgtVars, sessVars, osVars, exc, bodyVars >>
    /\ UNCHANGED dataVars

\* _resolve_symbols before the session is opened (read-symbol, read-symbols,
\* series): a symbol that is not found raises ValueError.
resolve_symbols ==
    /\ pc = "pre"
    /\ \/ /\ pc' = "os_first"
          /\ UNCHANGED result
       \/ /\ ResolvesSymbols(cmd)
          /\ pc' = "returned"
          /\ result' = Failure("symbol")
    /\ UNCHANGED << cmd, args, ip, tgtVars, sessVars, osVars, exc, bodyVars >>
    /\ UNCHANGED dataVars

\* ------------------------------------------------------------ open_session
Call(op, mode, err) == [ op |-> op, mode |-> mode, err |-> err ]

DriverError == <<"error">>

\* The state connecting in `mode` leaves the target in.
AfterConnect(mode, st) == IF mode \in {"halt", "under-reset"} THEN "HALTED" ELSE st

\* First attempt: _try_open(connect_mode).  A non-recoverable error is re-raised
\* as it is; any other error is saved and the recovery cycle follows.
open_session_first ==
    /\ pc = "os_first"
    /\ LET mode == ConnectMode(cmd) IN
       \/ /\ mainOpen' = TRUE
          /\ tstate' = AfterConnect(mode, tstate)
          /\ oslog' = Append(oslog, Call("open", mode, NoErr))
          /\ pc' = "os_ok"
          /\ UNCHANGED << saved_err, result >>
       \/ \E e \in OpenErrors :
          /\ oslog' = Append(oslog, Call("open", mode, e))
          /\ IF IsNonRecoverable(e)
             THEN /\ pc' = "os_failed"
                  /\ result' = [ Failure("open_first") EXCEPT !.first = e, !.msg = e ]
                  /\ UNCHANGED saved_err
             ELSE /\ pc' = "os_rec_open"
                  /\ saved_err' = e
                  /\ UNCHANGED result
          /\ UNCHANGED << mainOpen, tstate >>
    /\ UNCHANGED << cmd, args, ip, bp, wp, closes, recOpen, detOpen, leaked,
                    retry_err, exc, bodyVars >>
    /\ UNCHANGED dataVars

\* Mutant: the text names the failed recovery only.
RecoveryFailedMessage_NoFirst(first) ==
    <<"cannot", "connect", "recovery", "failed", "check", "USB">>

\* The text of the RuntimeError raised when the recovery cycle failed.
RecoveryFailedMessage(first) ==
    <<"cannot", "connect", "error:">> \o first \o <<"recovery", "failed", "check", "USB">>

RecoveryFailed ==
    [ Failure("recovery_failed") EXCEPT !.first = saved_err,
                                        !.msg = RecoveryFailedMessage(saved_err) ]

\* recovery = session_with_chosen_probe(under-reset); recovery.open()
open_session_recovery_open ==
    /\ pc = "os_rec_open"
    /\ \/ /\ recOpen' = TRUE
          /\ tstate' = AfterConnect("under-reset", tstate)
          /\ oslog' = Append(oslog, Call("open", "under-reset", NoErr))
          /\ pc' = "os_rec_reset"
          /\ UNCHANGED result
       \/ /\ oslog' = Append(oslog, Call("open", "under-reset", DriverError))
          /\ pc' = "os_failed"
          /\ result' = RecoveryFailed
          /\ UNCHANGED << recOpen, tstate >>
    /\ UNCHANGED << cmd, args, ip, bp, wp, mainOpen, closes, detOpen, leaked,
                    saved_err, retry_err, exc, bodyVars >>
    /\ UNCHANGED dataVars

\* recovery.target.reset()
open_session_recovery_reset ==
    /\ pc = "os_rec_reset"
    /\ \/ /\ tstate' = "RUNNING"
          /\ oslog' = Append(oslog, Call("reset", "under-reset", NoErr))
          /\ pc' = "os_rec_close"
          /\ UNCHANGED result
       \/ /\ oslog' = Append(oslog, Call("reset", "under-reset", DriverError))
          /\ pc' = "os_failed"
          /\ result' = RecoveryFailed
          /\ UNCHANGED tstate
    /\ UNCHANGED << cmd, args, ip, bp, wp, sessVars, saved_err, retry_err, exc, bodyVars >>
    /\ UNCHANGED dataVars

\* recovery.close(); a close that raises may or may not have released the probe.
open_session_recovery_close ==
    /\ pc = "os_rec_close"
    /\ \/ /\ recOpen' = FALSE
          /\ oslog' = Append(oslog, Call("close", "under-reset", NoErr))
          /\ pc' = "os_sleep"
          /\ UNCHANGED result
       \/ /\ recOpen' \in BOOLEAN
          /\ oslog' = Append(oslog, Call("close", "under-reset", DriverError))
          /\ pc' = "os_failed"
          /\ result' = RecoveryFailed
    /\ UNCHANGED << cmd, args, ip, tgtVars, mainOpen, closes, detOpen, leaked,
                    saved_err, retry_err, exc, bodyVars >>
    /\ UNCHANGED dataVars

\* time.sleep(0.5)
open_session_settle ==
    /\ pc = "os_sleep"
    /\ oslog' = Append(oslog, Call("sleep", "none", NoErr))
    /\ pc' = "os_retry"
    /\ UNCHANGED << cmd, args, ip, tgtVars, sessVars, saved_err, retry_err, exc,
                    bodyVars, result >>
    /\ UNCHANGED dataVars

\* Mutant: the retry connects under reset.
RetryMode_UnderReset(mode) == "under-reset"

\* The mode of the retry: _try_open(connect_mode), the caller's mode again.
RetryMode(mode) == mode

\* Mutant: the text of the retry failure names the retry's error only.
RetryFailedMessage_RetryOnly(first, retry) ==
    <<"cannot", "connect", "after_recovery:">> \o retry
        \o <<"replug", "USB", "or", "check", "power">>

\* The text of the RuntimeError raised when the retry failed: a header, the
\* line of the first error, the line of the retry's error, the remedy.
RetryFailedMessage(first, retry) ==
    <<"cannot", "connect", "first_error:">> \o first \o <<"after_recovery:">> \o retry
        \o <<"replug", "USB", "or", "check", "power">>

\* Retry: _try_open(connect_mode) once more; a failure raises a RuntimeError
\* whose text holds saved_err and retry_err.
open_session_retry ==
    /\ pc = "os_retry"
    /\ LET mode == RetryMode(ConnectMode(cmd)) IN
       \/ /\ mainOpen' = TRUE
          /\ tstate' = AfterConnect(mode, tstate)
          /\ oslog' = Append(oslog, Call("open", mode, NoErr))
          /\ pc' = "os_ok"
          /\ UNCHANGED << retry_err, result >>
       \/ \E e \in OpenErrors :
          /\ oslog' = Append(oslog, Call("open", mode, e))
          /\ retry_err' = e
          /\ pc' = "os_failed"
          /\ result' = [ Failure("retry_failed") EXCEPT
                              !.first = saved_err, !.retry = e,
                              !.msg = RetryFailedMessage(saved_err, e) ]
          /\ UNCHANGED << mainOpen, tstate >>
    /\ UNCHANGED << cmd, args, ip, bp, wp, closes, recOpen, detOpen, leaked,
                    saved_err, exc, bodyVars >>
    /\ UNCHANGED dataVars

\* open_session raised: the handler has no try around the call, the error
\* leaves the handler.
open_session_raised ==
    /\ pc = "os_failed"
    /\ pc' = "returned"
    /\ UNCHANGED << cmd, args, ip, tgtVars, sessVars, osVars, exc, bodyVars, result >>
    /\ UNCHANGED dataVars

\* open_session returned the Session; the handler enters its try block.
enter_try ==
    /\ pc = "os_ok"
    /\ pc' = "body"
    /\ saved_err' = NoErr
    /\ retry_err' = NoErr
    /\ oslog' = <<>>
    /\ UNCHANGED << cmd, args, ip, tgtVars, sessVars, exc, bodyVars, result >>
    /\ UNCHANGED dataVars

\* ------------------------------------------------------- the handler body
\* The machine an operation acts on.
Machine == [ tstate |-> tstate, bp |-> bp, wp |-> wp, loc |-> loc, hist |-> hist,
             elapsed |-> elapsed ]

Halt(m) == [ m EXCEPT !.tstate = "HALTED" ]

Resume(m) ==
    [ m EXCEPT !.tstate = "RUNNING", !.hist.resumes = @ + 1, !.hist.haltedAt = -1,
               !.hist.bp_at_resume = m.bp, !.elapsed = 0 ]

\* was_halted = (target.get_state().name == "HALTED") / core.is_halted()
QueryHalted(m) ==
    [ m EXCEPT !.loc.was_halted = (m.tstate = "HALTED"), !.hist.entry = m.tstate,
               !.hist.resumes = 0 ]

\* _read_blocks, up to the try: was_halted, did_halt, the halt.
ReadBlocksEnter(m, halt) ==
    LET was == (m.tstate = "HALTED")
        did == halt /\ ~was
        q   == [ m EXCEPT !.loc.was_halted = was, !.loc.did_halt = did,
                          !.hist.entry = m.tstate, !.hist.resumes = 0 ]
    IN  IF did THEN Halt(q) ELSE q

\* Mutant: the finally resumes whether or not this call halted.
ReadBlocksFinally_Unconditional(m) == Resume(m)

\* _read_blocks, the finally: if did_halt: core.resume()
ReadBlocksFinally(m) == IF m.loc.did_halt THEN Resume(m) ELSE m

\* Mutant: no forced halt after the deadline.
HaltUnlessHit_NoHalt(m) == m

\* if not hit: core.halt()
HaltUnlessHit(m) ==
    IF m.loc.hit THEN m ELSE [ Halt(m) EXCEPT !.loc.forced = TRUE ]

\* target.reset() / target.reset_and_halt(): the reset clears the FPB and DWT units.
Reset(m, st) == [ m EXCEPT !.tstate = st, !.bp = FALSE, !.wp = FALSE ]

Effect(op, m) ==
    CASE op = "was_halted" -> QueryHalted(m)
      [] op = "halt_unless_was" -> IF m.loc.was_halted THEN m ELSE Halt(m)
      [] op = "halt_unless_halted" ->
            Halt([ m EXCEPT !.hist.entry = m.tstate, !.hist.resumes = 0 ])
      [] op = "resume_unless_was" -> IF m.loc.was_halted THEN m ELSE Resume(m)
      [] op = "halt" -> Halt(m)
      [] op = "resume" -> Resume(m)
      [] op = "reset" -> Reset(m, "RUNNING")
      [] op = "reset_and_halt" ->
            [ Reset(m, "HALTED") EXCEPT !.hist.pre = Append(@, "reset") ]
      [] op = "set_bp" -> [ m EXCEPT !.bp = TRUE, !.hist.pre = Append(@, "arm") ]
      [] op = "write32" -> [ m EXCEPT !.hist.pre = Append(@, "write") ]
      [] op = "write_reg" -> [ m EXCEPT !.hist.pre = Append(@, "set_pc") ]
      [] op = "remove_bp" -> [ m EXCEPT !.bp = FALSE ]
      [] op = "set_wp" -> [ m EXCEPT !.wp = TRUE, !.hist.wp_sets = @ + 1 ]
      [] op = "remove_wp" ->
            [ m EXCEPT !.wp = FALSE,
                       !.hist.wp_removed = IF m.loc.forced THEN "after_forced_halt"
                                           ELSE "after_hit" ]
      [] op = "t0" -> [ m EXCEPT !.elapsed = 0, !.loc.hit = FALSE ]
      [] op = "halt_unless_hit" -> HaltUnlessHit(m)
      [] op = "read_regs" -> [ m EXCEPT !.loc.regs = TRUE ]
      [] op \in {"fault_info", "fault_info_if_hit"} ->
            IF op = "fault_info" \/ m.loc.hit
            THEN [ m EXCEPT !.loc.fault_info = TRUE ] ELSE m
      [] op = "rb_enter" -> ReadBlocksEnter(m, args.halt)
      [] op = "rb_finally" -> ReadBlocksFinally(m)
      [] OTHER -> m

\* Operations of the driver that are issued outside any try/except and can raise.
CanRaise(op) ==
    \/ op \in { "program", "reset", "reset_and_halt", "read_mem", "write_mem", "write32",
                "read_reg", "write_reg", "step", "set_bp", "remove_bp", "set_wp",
                "remove_wp", "fault_info", "rb_read" }
    \/ op = "fault_info_if_hit" /\ loc.hit
    \/ op = "read_pc_if_was" /\ loc.was_halted

AtOp == pc = "body" /\ ip <= Len(Prog)

\* The finally of _read_blocks that guards the read at index i.
NextFinally(i) ==
    CHOOSE j \in (i + 1)..Len(Prog) :
        /\ Prog[j] = "rb_finally"
        /\ \A k \in (i + 1)..(j - 1) : Prog[k] # "rb_finally"

\* One operation of the body takes effect.  The finally of _read_blocks, when
\* an exception is in flight, lets it go on to the handler's finally.
ExecOp ==
    /\ AtOp
    /\ Prog[ip] # "poll"
    /\ LET m == Effect(Prog[ip], Machine) IN
        /\ tstate' = m.tstate
        /\ bp' = m.bp
        /\ wp' = m.wp
        /\ loc' = m.loc
        /\ hist' = m.hist
        /\ elapsed' = m.elapsed
    /\ IF Prog[ip] = "rb_finally" /\ exc # "none"
       THEN pc' = "finally" /\ ip' = ip
       ELSE pc' = "body" /\ ip' = ip + 1
    /\ UNCHANGED << cmd, args, sessVars, osVars, exc, result >>
    /\ UNCHANGED dataVars

\* One operation of the body raises: inside the try of _read_blocks control
\* goes to its finally, anywhere else to the finally of the handler.
RaiseOp ==
    /\ AtOp
    /\ CanRaise(Prog[ip])
    /\ exc' = "TargetError"
    /\ IF Prog[ip] = "rb_read"
       THEN pc' = "body" /\ ip' = NextFinally(ip)
       ELSE pc' = "finally" /\ ip' = ip
    /\ UNCHANGED << cmd, args, tgtVars, sessVars, osVars, bodyVars, result >>
    /\ UNCHANGED dataVars

\* The register loop when some core.read_core_register(name) raised: the
\* except passes, the register is left out, the loop goes on to the end.
ReadRegsPartial ==
    /\ AtOp
    /\ Prog[ip] = "read_regs"
    /\ loc' = [ loc EXCEPT !.regs = TRUE, !.partial = TRUE ]
    /\ ip' = ip + 1
    /\ UNCHANGED << pc, cmd, args, tgtVars, sessVars, osVars, exc, hist, elapsed, result >>
    /\ UNCHANGED dataVars

\* Mutant: the handler ignores the boolean core.set_watchpoint returned.
SetWatchpointRefused_Ignored ==
    /\ AtOp
    /\ Prog[ip] = "set_wp"
    /\ hist' = [ hist EXCEPT !.wp_sets = @ + 1, !.wp_refused = TRUE ]
    /\ pc' = "body"
    /\ ip' = ip + 1
    /\ UNCHANGED << cmd, args, tgtVars, sessVars, osVars, exc, loc, elapsed, result >>
    /\ UNCHANGED dataVars

\* ok = core.set_watchpoint(...) returned False (no comparator of the DWT unit
\* is free): if not ok: raise RuntimeError(...), which goes to the finally.
SetWatchpointRefused ==
    /\ AtOp
    /\ Prog[ip] = "set_wp"
    /\ hist' = [ hist EXCEPT !.wp_sets = @ + 1, !.wp_refused = TRUE ]
    /\ exc' = "WatchpointNotSet"
    /\ pc' = "finally"
    /\ ip' = ip
    /\ UNCHANGED << cmd, args, tgtVars, sessVars, osVars, loc, elapsed, result >>
    /\ UNCHANGED dataVars

\* while (time.monotonic() - t0) * 1000 < timeout_ms:
\*     if core.is_halted(): hit = True; break
\*     time.sleep(0.01)
PollCheck ==
    /\ AtOp
    /\ Prog[ip] = "poll"
    /\ loc.sleepLeft = 0
    /\ IF elapsed < args.timeout
       THEN IF tstate = "HALTED"
            THEN loc' = [ loc EXCEPT !.hit = TRUE ] /\ ip' = ip + 1
            ELSE loc' = [ loc EXCEPT !.sleepLeft = PollSleep ] /\ ip' = ip
       ELSE loc' = loc /\ ip' = ip + 1
    /\ UNCHANGED << pc, cmd, args, tgtVars, sessVars, osVars, exc, hist, elapsed, result >>
    /\ UNCHANGED dataVars

\* One tick of time.sleep(0.01).
PollSleepTick ==
    /\ AtOp
    /\ Prog[ip] = "poll"
    /\ loc.sleepLeft > 0
    /\ loc' = [ loc EXCEPT !.sleepLeft = @ - 1 ]
    /\ elapsed' = elapsed + 1
    /\ UNCHANGED << pc, cmd, args, ip, tgtVars, sessVars, osVars, exc, hist, result >>
    /\ UNCHANGED dataVars

\* The target stops by itself: it reaches the breakpoint, trips the watchpoint,
\* or (while a handler waits for a halt) faults.
TargetHalts ==
    /\ AtOp
    /\ tstate = "RUNNING"
    /\ bp \/ wp \/ Prog[ip] = "poll"
    /\ tstate' = "HALTED"
    /\ hist' = [ hist EXCEPT !.haltedAt = elapsed ]
    /\ UNCHANGED << pc, cmd, args, ip, bp, wp, sessVars, osVars, exc, loc, elapsed, result >>
    /\ UNCHANGED dataVars

\* The body reaches its return statement: the result is built from the locals.
BodyReturn ==
    /\ pc = "body"
    /\ ip > Len(Prog)
    /\ result' = [ NoResult EXCEPT !.status = "ok", !.kind = cmd, !.hit = loc.hit,
                                   !.regs = loc.regs, !.fault_info = loc.fault_info ]
    /\ pc' = "finally"
    /\ UNCHANGED << cmd, args, ip, tgtVars, sessVars, osVars, exc, bodyVars >>
    /\ UNCHANGED dataVars

\* The error the caller sees for the exception that left the handler.
Raised(e) == Failure(IF e = "WatchpointNotSet" THEN "watchpoint" ELSE "target")

\* Mutant: close() after the return statement instead of in a finally.
Finally_CloseOnSuccessOnly ==
    /\ pc = "finally"
    /\ mainOpen' = (exc # "none" /\ mainOpen)
    /\ closes' = IF exc = "none" THEN closes + 1 ELSE closes
    /\ bp' = FALSE
    /\ wp' = FALSE
    /\ result' = IF exc # "none" THEN Raised(exc) ELSE result
    /\ pc' = "returned"
    /\ UNCHANGED << cmd, args, ip, tstate, recOpen, detOpen, leaked, osVars, exc, bodyVars >>
    /\ UNCHANGED dataVars

\* finally: session.close().  Closing the Session clears the hardware
\* breakpoints and watchpoints.
Finally ==
    /\ pc = "finally"
    /\ mainOpen' = FALSE
    /\ closes' = closes + 1
    /\ bp' = FALSE
    /\ wp' = FALSE
    /\ result' = IF exc # "none" THEN Raised(exc) ELSE result
    /\ pc' = "returned"
    /\ UNCHANGED << cmd, args, ip, tstate, recOpen, detOpen, leaked, osVars, exc, bodyVars >>
    /\ UNCHANGED dataVars

\* The handler has returned or raised; the caller prints the result or the
\* error.  A Session nobody closed stays open for the life of the process.
Return ==
    /\ pc = "returned"
    /\ pc' = "idle"
    /\ cmd' = "none"
    /\ args' = DefaultArgs
    /\ ip' = 1
    /\ leaked' = leaked + (IF mainOpen THEN 1 ELSE 0) + (IF recOpen THEN 1 ELSE 0)
    /\ mainOpen' = FALSE
    /\ recOpen' = FALSE
    /\ closes' = 0
    /\ saved_err' = NoErr
    /\ retry_err' = NoErr
    /\ oslog' = <<>>
    /\ exc' = "none"
    /\ loc' = InitLoc
    /\ hist' = InitHist
    /\ elapsed' = 0
    /\ result' = NoResult
    /\ UNCHANGED << tgtVars, detOpen >>
    /\ UNCHANGED dataVars

Next ==
    \/ Begin
    \/ resolve_probe
    \/ detect_open
    \/ detect_finally
    \/ detect_done
    \/ resolve_symbols
    \/ open_session_first
    \/ open_session_recovery_open
    \/ open_session_recovery_reset
    \/ open_session_recovery_close
    \/ open_session_settle
    \/ open_session_retry
    \/ open_session_raised
    \/ enter_try
    \/ ExecOp
    \/ RaiseOp
    \/ ReadRegsPartial
    \/ SetWatchpointRefused
    \/ PollCheck
    \/ PollSleepTick
    \/ TargetHalts
    \/ BodyReturn
    \/ Finally
    \/ Return

Spec == Init /\ [][Next]_vars

\* ============================================== cmd_write, word by word
\* The data side of cmd_write: the words of the request, the target memory,
\* the two driver calls and the result.  A word of the modelled memory is
\* WordBits wide; the memory has MaxWords + 1 words, some of which do not take
\* writes (flash, read-only or reserved bits).
RECURSIVE Pow(_, _)
Pow(b, n) == IF n = 0 THEN 1 ELSE b * Pow(b, n - 1)

WordModulus == Pow(2, WordBits)

Cells == 0..MaxWords

\* int(v, 0) accepts any integer: the words of a request are the values a
\* memory word can hold and one value that is too wide for it.
RequestWords == 0..WordModulus

HexDigits ==
    << "0", "1", "2", "3", "4", "5", "6", "7", "8", "9", "A", "B", "C", "D", "E", "F" >>

\* f"0x{v:08X}" for 0 <= v < 16^8, as the sequence of its characters.
Hex08X(v) ==
    << "0", "x" >> \o [ i \in 1..8 |-> HexDigits[((v \div Pow(16, 8 - i)) % 16) + 1] ]

WriteRequests ==
    { [ addr |-> a, words |-> w ] :
        a \in Cells,
        w \in UNION { [ 1..n -> RequestWords ] : n \in 1..MaxWords } }

InitWrite ==
    /\ InitProg
    /\ idcode_call = NoCall
    /\ blocks_call = NoCall
    /\ regs_call = NoCall
    /\ fault_call = NoCall
    /\ probe_call = NoCall
    /\ registry = NoCall
    /\ writers = NoCall
    /\ symbols_call = NoCall
    /\ step_call = NoCall
    /\ checksum = NoCall
    /\ \E r \in WriteRequests, rom \in SUBSET Cells, fill \in {0, WordModulus - 1} :
          /\ r.addr + Len(r.words) - 1 \in Cells
          /\ write_call =
                [ pc |-> "write", addr |-> r.addr, words |-> r.words,
                  mem |-> [ c \in Cells |-> fill ], rom |-> rom, log |-> << >>,
                  readback |-> << >>, result |-> [ status |-> "none" ] ]

\* The memory after the first k words of `words` were transferred to addr: a
\* word is stored with the width of the bus, a cell that takes no writes keeps
\* its value.
Stored(mem, rom, addr, words, k) ==
    [ c \in Cells |->
        IF c >= addr /\ c < addr + k /\ c \notin rom
        THEN words[c - addr + 1] % WordModulus
        ELSE mem[c] ]

\* target.write_memory_block32(addr, words): one call with all the words.  A
\* transfer that raises has stored some of the leading words.
write_memory_block32 ==
    /\ write_call.pc = "write"
    /\ LET w == write_call IN
       \/ write_call' =
             [ w EXCEPT !.mem = Stored(w.mem, w.rom, w.addr, w.words, Len(w.words)),
                        !.log = Append(@, [ op |-> "write", addr |-> w.addr,
                                            data |-> w.words, raised |-> FALSE ]),
                        !.pc = "read" ]
       \/ \E k \in 0..(Len(w.words) - 1) :
             write_call' =
               [ w EXCEPT !.mem = Stored(w.mem, w.rom, w.addr, w.words, k),
                          !.log = Append(@, [ op |-> "write", addr |-> w.addr,
                                              data |-> w.words, raised |-> TRUE ]),
                          !.result = [ status |-> "error" ],
                          !.pc = "raised" ]
    /\ UNCHANGED << progVars, idcode_call, blocks_call, regs_call, fault_call, probe_call,
                    registry, writers, symbols_call, step_call, checksum >>

\* Mutant: the readback reads one word.
ReadbackCount_One(words) == 1

\* The second argument of read_memory_block32: len(words).
ReadbackCount(words) == Len(words)

\* readback = target.read_memory_block32(addr, len(words))
read_memory_block32 ==
    /\ write_call.pc = "read"
    /\ LET w == write_call
           n == ReadbackCount(w.words) IN
       \/ write_call' =
             [ w EXCEPT !.readback = [ i \in 1..n |-> w.mem[w.addr + i - 1] ],
                        !.log = Append(@, [ op |-> "read", addr |-> w.addr,
                                            count |-> n, raised |-> FALSE ]),
                        !.pc = "return" ]
       \/ write_call' =
             [ w EXCEPT !.log = Append(@, [ op |-> "read", addr |-> w.addr,
                                            count |-> n, raised |-> TRUE ]),
                        !.result = [ status |-> "error" ],
                        !.pc = "raised" ]
    /\ UNCHANGED << progVars, idcode_call, blocks_call, regs_call, fault_call, probe_call,
                    registry, writers, symbols_call, step_call, checksum >>

\* return {..., "written": [...], "readback": [...], "verified": words == readback}
write_return ==
    /\ write_call.pc = "return"
    /\ LET w == write_call IN
       write_call' =
         [ w EXCEPT !.result =
                      [ status |-> "ok",
                        address |-> Hex08X(w.addr),
                        written |-> [ i \in 1..Len(w.words) |-> Hex08X(w.words[i]) ],
                        readback |-> [ i \in 1..Len(w.readback) |-> Hex08X(w.readback[i]) ],
                        verified |-> (w.words = w.readback) ],
                    !.pc = "done" ]
    /\ UNCHANGED << progVars, idcode_call, blocks_call, regs_call, fault_call, probe_call,
                    registry, writers, symbols_call, step_call, checksum >>

NextWrite ==
    \/ write_memory_block32
    \/ read_memory_block32
    \/ write_return

SpecWrite == InitWrite /\ [][NextWrite]_vars

\* ================================================ the register snapshot loop
\* regs = {}; for name in reg_names: try: regs[name] = f"0x{read(name):08X}"
\* except Exception: pass.  The same loop stands in cmd_regs, cmd_step,
\* cmd_break_run, cmd_wait_halt, cmd_watch and cmd_diagnose, each with its list.
reg_names(handler) ==
    CASE handler = "regs" ->
           << "r0", "r1", "r2", "r3", "r4", "r5", "r6", "r7", "r8", "r9", "r10", "r11",
              "r12", "sp", "lr", "pc", "xpsr", "msp", "psp", "control", "faultmask",
              "basepri", "primask" >>
      [] handler \in {"step", "wait-halt"} ->
           << "pc", "sp", "lr", "r0", "r1", "r2", "r3", "xpsr" >>
      [] handler \in {"break", "diagnose"} ->
           << "pc", "sp", "lr", "r0", "r1", "r2", "r3", "r12", "xpsr", "msp", "psp",
              "control" >>
      [] handler = "watch" ->
           << "pc", "sp", "lr", "r0", "r1", "r2", "r3" >>

\* The loop is at its first register; the core holds a value in each register.
InitRegs ==
    /\ InitProg
    /\ idcode_call = NoCall
    /\ blocks_call = NoCall
    /\ write_call = NoCall
    /\ fault_call = NoCall
    /\ probe_call = NoCall
    /\ registry = NoCall
    /\ writers = NoCall
    /\ symbols_call = NoCall
    /\ step_call = NoCall
    /\ checksum = NoCall
    /\ \E h \in {"regs", "step", "break", "wait-halt", "watch", "diagnose"}, seed \in 0..1 :
          LET names == reg_names(h) IN
          regs_call =
            [ pc |-> "loop", handler |-> h, names |-> names, k |-> 1,
              core |-> [ n \in { names[i] : i \in 1..Len(names) } |->
                           seed * 4096 + (CHOOSE i \in 1..Len(names) : names[i] = n) ],
              regs |-> [ n \in {} |-> << >> ], failed |-> {},
              result |-> [ status |-> "none" ] ]

\* val = core.read_core_register(name); regs[name] = f"0x{val:08X}"
read_core_register ==
    /\ regs_call.pc = "loop"
    /\ regs_call.k <= Len(regs_call.names)
    /\ LET c == regs_call
           name == c.names[c.k] IN
       regs_call' =
         [ c EXCEPT !.regs = [ n \in DOMAIN c.regs \cup {name} |->
                                 IF n = name THEN Hex08X(c.core[name]) ELSE c.regs[n] ],
                    !.k = @ + 1 ]
    /\ UNCHANGED << progVars, idcode_call, blocks_call, write_call, fault_call, probe_call,
                    registry, writers, symbols_call, step_call, checksum >>

\* Mutant: a failed read ends the loop.
read_core_register_raises_Abort ==
    /\ regs_call.pc = "loop"
    /\ regs_call.k <= Len(regs_call.names)
    /\ LET c == regs_call IN
       regs_call' =
         [ c EXCEPT !.failed = @ \cup {c.names[c.k]},
                    !.result = [ status |-> "ok", registers |-> c.regs ],
                    !.pc = "done" ]
    /\ UNCHANGED << progVars, idcode_call, blocks_call, write_call, fault_call, probe_call,
                    registry, writers, symbols_call, step_call, checksum >>

\* core.read_core_register(name) raises: except Exception: pass.  At most
\* MaxFailedReads reads of a batch fail, or every one of them does.
read_core_register_raises ==
    /\ regs_call.pc = "loop"
    /\ regs_call.k <= Len(regs_call.names)
    /\ LET c == regs_call IN
       /\ \/ Cardinality(c.failed) < MaxFailedReads
          \/ c.failed = { c.names[i] : i \in 1..(c.k - 1) }
       /\ regs_call' = [ c EXCEPT !.failed = @ \cup {c.names[c.k]}, !.k = @ + 1 ]
    /\ UNCHANGED << progVars, idcode_call, blocks_call, write_call, fault_call, probe_call,
                    registry, writers, symbols_call, step_call, checksum >>

\* The loop is over: the handler goes on with the regs dict ("registers": regs).
regs_return ==
    /\ regs_call.pc = "loop"
    /\ regs_call.k > Len(regs_call.names)
    /\ regs_call' =
         [ regs_call EXCEPT !.result = [ status |-> "ok", registers |-> regs_call.regs ],
                            !.pc = "done" ]
    /\ UNCHANGED << progVars, idcode_call, blocks_call, write_call, fault_call, probe_call,
                    registry, writers, symbols_call, step_call, checksum >>

NextRegs ==
    \/ read_core_register
    \/ read_core_register_raises
    \/ regs_return

SpecRegs == InitRegs /\ [][NextRegs]_vars

\* ====================================================== _read_fault_info
\* A 32-bit register value is the set of its bits that are 1 (bit 0 the least
\* significant), so that `value & mask` with a one-bit mask is membership.
\* The tables in their declared order, each mask given by its bit number.
cfsr_bits ==
    << [ bit |-> 0,  name |-> "IACCVIOL",    desc |-> "Instruction access violation" ],
       [ bit |-> 1,  name |-> "DACCVIOL",    desc |-> "Data access violation" ],
       [ bit |-> 3,  name |-> "MUNSTKERR",   desc |-> "MemManage unstacking error" ],
       [ bit |-> 4,  name |-> "MSTKERR",     desc |-> "MemManage stacking error" ],
       [ bit |-> 5,  name |-> "MLSPERR",     desc |-> "MemManage FP lazy state" ],
       [ bit |-> 8,  name |-> "IBUSERR",     desc |-> "Instruction bus error" ],
       [ bit |-> 9,  name |-> "PRECISERR",   desc |-> "Precise data bus error" ],
       [ bit |-> 10, name |-> "IMPRECISERR", desc |-> "Imprecise data bus error" ],
       [ bit |-> 11, name |-> "UNSTKERR",    desc |-> "BusFault unstacking error" ],
       [ bit |-> 12, name |-> "STKERR",      desc |-> "BusFault stacking error" ],
       [ bit |-> 13, name |-> "LSPERR",      desc |-> "BusFault FP lazy state" ],
       [ bit |-> 16, name |-> "UNDEFINSTR",  desc |-> "Undefined instruction" ],
       [ bit |-> 17, name |-> "INVSTATE",    desc |-> "Invalid state - Thumb bit" ],
       [ bit |-> 18, name |-> "INVPC",       desc |-> "Invalid PC load" ],
       [ bit |-> 19, name |-> "NOCP",        desc |-> "No coprocessor" ],
       [ bit |-> 24, name |-> "UNALIGNED",   desc |-> "Unaligned access" ],
       [ bit |-> 25, name |-> "DIVBYZERO",   desc |-> "Division by zero" ] >>

hfsr_bits ==
    << [ bit |-> 30, name |-> "FORCED",  desc |-> "HardFault escalated from other fault" ],
       [ bit |-> 1,  name |-> "VECTTBL", desc |-> "Vector table read error" ] >>

\* The sets of at most n of the 64 bits of CFSR (0..31) and HFSR (32..63).
RECURSIVE BitSets(_)
BitSets(n) ==
    IF n = 0 THEN { {} }
    ELSE LET S == BitSets(n - 1) IN S \cup { s \cup {b} : s \in S, b \in 0..63 }

\* The register values read: at most MaxFaultBits bits set in the two
\* registers together, or every bit of one or of both set.
FaultRegisterValues ==
    { [ cfsr |-> { b \in s : b < 32 }, hfsr |-> { b - 32 : b \in { x \in s : x >= 32 } } ] :
        s \in BitSets(MaxFaultBits) \cup { 0..31, 32..63, 0..63 } }

\* The link register values read, most significant hexadecimal digit first:
\* the three EXC_RETURN values of a core without floating point (0xFFFFFFF9,
\* 0xFFFFFFFD, 0xFFFFFFF1), one of a core with an extended frame
\* (0xFFFFFFED) and an ordinary return address (0x08000123).
LinkRegisterValues ==
    { << 15, 15, 15, 15, 15, 15, 15, 9 >>,
      << 15, 15, 15, 15, 15, 15, 15, 13 >>,
      << 15, 15, 15, 15, 15, 15, 15, 1 >>,
      << 15, 15, 15, 15, 15, 15, 14, 13 >>,
      << 0, 8, 0, 0, 0, 1, 2, 3 >> }

InitFault ==
    /\ InitProg
    /\ idcode_call = NoCall
    /\ blocks_call = NoCall
    /\ write_call = NoCall
    /\ regs_call = NoCall
    /\ probe_call = NoCall
    /\ registry = NoCall
    /\ writers = NoCall
    /\ symbols_call = NoCall
    /\ step_call = NoCall
    /\ checksum = NoCall
    /\ \E v \in FaultRegisterValues, verbose \in BOOLEAN,
          lr \in LinkRegisterValues, frame_ok \in BOOLEAN :
          \* the link register and the frame read vary while the fault
          \* registers hold at most one set bit
          /\ \/ lr = << 15, 15, 15, 15, 15, 15, 15, 9 >> /\ frame_ok
             \/ Cardinality(v.cfsr) + Cardinality(v.hfsr) <= 1
          /\ fault_call = [ pc |-> "decode", cfsr |-> v.cfsr, hfsr |-> v.hfsr,
                            verbose |-> verbose,
                            bfar |-> 1025, mmfar |-> 2050,
                            lr |-> lr,
                            sp |-> [ msp |-> 256, psp |-> 512 ],
                            frames |-> [ msp |-> << 1, 2, 3, 4, 5, 6, 7, 8 >>,
                                         psp |-> << 11, 12, 13, 14, 15, 16, 17, 18 >> ],
                            frame_ok |-> frame_ok,
                            result |-> [ status |-> "none" ] ]

\* Mutant: the scan of a table stops at its first set bit.
Append_faults_FirstOnly(table, value, verbose) ==
    LET Set(e) == e.bit \in value
        hits == SelectSeq(table, Set)
    IN  IF hits = << >> THEN << >>
        ELSE << IF verbose THEN << hits[1].name, hits[1].desc >> ELSE << hits[1].name >> >>

\* for mask, name, desc in table: if value & mask:
\*     faults.append(f"{name} ({desc})" if verbose else name)
\* An entry of the list is its words: the name, then the description if verbose.
Append_faults(table, value, verbose) ==
    LET Set(e) == e.bit \in value
        hits == SelectSeq(table, Set)
    IN  [ i \in 1..Len(hits) |->
            IF verbose THEN << hits[i].name, hits[i].desc >> ELSE << hits[i].name >> ]

\* Mutant: the memory-fault address is looked at first.
fault_addr_MemFirst(cfsr, bfar, mmfar) ==
    IF 2 \in cfsr THEN << Hex08X(mmfar), "(MMFAR)" >>
    ELSE IF 7 \in cfsr THEN << Hex08X(bfar), "(BFAR)" >>
    ELSE << >>

\* fault_addr = None
\* if cfsr & 0x0080: fault_addr = f"0x{target.read32(0xE000ED38):08X} (BFAR)"
\* elif cfsr & 0x0004: fault_addr = f"0x{target.read32(0xE000ED34):08X} (MMFAR)"
\* The string is its two words; << >> stands for None.
fault_addr(cfsr, bfar, mmfar) ==
    IF 7 \in cfsr THEN << Hex08X(bfar), "(BFAR)" >>
    ELSE IF 2 \in cfsr THEN << Hex08X(mmfar), "(MMFAR)" >>
    ELSE << >>

\* Mutant: the frame is always read from the main stack.
exception_stack_frame_MainOnly(f) ==
    IF \A i \in 1..7 : f.lr[i] = 15
    THEN IF f.frame_ok
         THEN LET frame == f.frames.msp
              IN  [ stack |-> "msp", sp |-> Hex08X(f.sp.msp),
                    r0 |-> Hex08X(frame[1]), r1 |-> Hex08X(frame[2]),
                    r2 |-> Hex08X(frame[3]), r3 |-> Hex08X(frame[4]),
                    r12 |-> Hex08X(frame[5]), lr |-> Hex08X(frame[6]),
                    pc |-> Hex08X(frame[7]), xpsr |-> Hex08X(frame[8]) ]
         ELSE [ error |-> "stack frame read failed" ]
    ELSE [ stack |-> "none" ]

\* stack_frame = None
\* if (lr & 0xFFFFFFF0) == 0xFFFFFFF0:
\*     use_psp = (lr & 0x4) != 0; sp_name = "psp" if use_psp else "msp"
\*     sp_val = core.read_core_register(sp_name)
\*     try: frame = target.read_memory_block32(sp_val, 8); stack_frame = {...}
\*     except Exception: stack_frame = {"error": "stack frame read failed"}
\* [stack |-> "none"] stands for None; lr is its eight hexadecimal digits.
exception_stack_frame(f) ==
    IF \A i \in 1..7 : f.lr[i] = 15
    THEN LET use_psp == (f.lr[8] \div 4) % 2 # 0
             sp_name == IF use_psp THEN "psp" ELSE "msp"
             sp_val == f.sp[sp_name]
         IN  IF f.frame_ok
             THEN LET frame == f.frames[sp_name]
                  IN  [ stack |-> sp_name, sp |-> Hex08X(sp_val),
                        r0 |-> Hex08X(frame[1]), r1 |-> Hex08X(frame[2]),
                        r2 |-> Hex08X(frame[3]), r3 |-> Hex08X(frame[4]),
                        r12 |-> Hex08X(frame[5]), lr |-> Hex08X(frame[6]),
                        pc |-> Hex08X(frame[7]), xpsr |-> Hex08X(frame[8]) ]
             ELSE [ error |-> "stack frame read failed" ]
    ELSE [ stack |-> "none" ]

\* faults after both loops, and "faults": faults if faults else ["(none)"];
\* "fault_address" and "exception_stack_frame" are present in the report when
\* fault_addr and stack_frame are not None.
read_fault_info ==
    /\ fault_call.pc = "decode"
    /\ LET f == fault_call
           faults == Append_faults(cfsr_bits, f.cfsr, f.verbose)
                        \o Append_faults(hfsr_bits, f.hfsr, f.verbose)
       IN  fault_call' =
             [ f EXCEPT !.result =
                          [ status |-> "ok",
                            faults |-> IF faults # << >> THEN faults ELSE << <<"(none)">> >>,
                            fault_address |-> fault_addr(f.cfsr, f.bfar, f.mmfar),
                            exception_stack_frame |-> exception_stack_frame(f) ],
                        !.pc = "done" ]
    /\ UNCHANGED << progVars, idcode_call, blocks_call, write_call, regs_call, probe_call,
                    registry, writers, symbols_call, step_call, checksum >>

NextFault == read_fault_info

SpecFault == InitFault /\ [][NextFault]_vars

\* ============================================================ resolve_probe
\* A string is the sequence of its characters.  The identity of a probe is
\* the `mcu` of its list_probes entry; << >> stands for None (not known).
UpperCase == << "A", "B", "C", "D", "E", "F", "G", "H", "I", "J", "K", "L", "M", "N", "O", "P", "Q", "R", "S", "T", "U", "V", "W", "X", "Y", "Z" >>

LowerCase == << "a", "b", "c", "d", "e", "f", "g", "h", "i", "j", "k", "l", "m", "n", "o", "p", "q", "r", "s", "t", "u", "v", "w", "x", "y", "z" >>

\* str.lower()
str_lower(str) ==
    [ i \in 1..Len(str) |->
        IF \E k \in 1..26 : UpperCase[k] = str[i]
        THEN LowerCase[CHOOSE k \in 1..26 : UpperCase[k] = str[i]]
        ELSE str[i] ]

\* str.startswith(prefix)
startswith(str, prefix) ==
    /\ Len(prefix) <= Len(str)
    /\ \A i \in 1..Len(prefix) : str[i] = prefix[i]

\* str[:n]
Slice(str, n) == [ i \in 1..(IF Len(str) < n THEN Len(str) ELSE n) |-> str[i] ]

\* The identities list_probes can report for a probe.
ProbeIdentities ==
    { << >>,
      <<"s", "t", "m", "3", "2", "f", "4", "0", "7", "v", "g">>,
      <<"S", "T", "M", "3", "2", "F", "4", "0", "7", "V", "G">>,
      <<"s", "t", "m", "3", "2", "f", "4", "0", "7">>,
      <<"s", "t", "m", "3", "2", "f", "4", "0", "7", "v", "g", "t", "6">>,
      <<"n", "r", "f", "5", "2", "8", "4", "0">> }

\* The values of --mcu (<< >> for None and for the empty string).
RequestedIdentities ==
    { << >>,
      <<"s", "t", "m", "3", "2", "f", "4", "0", "7", "v", "g">>,
      <<"S", "T", "M", "3", "2", "F", "4", "0", "7">>,
      <<"s", "t", "m", "3", "2", "f", "4", "0", "7", "v", "e">>,
      <<"S", "t", "m", "3", "2", "F", "4", "0", "7", "V", "G", "T", "6">>,
      <<"s", "t", "m", "3", "2", "f", "4">>,
      <<"n", "r", "f", "5", "2", "8", "4", "0", "_", "x", "x", "a", "a">>,
      <<"n", "r", "f", "5", "2">>,
      <<"s", "t", "m", "3", "2", "h", "7", "5", "0">> }

\* The identities of the probes list_probes can return, in enumeration order;
\* the i-th connected probe has the unique id << "uid", i >>.
ProbeLists == UNION { [ 1..n -> ProbeIdentities ] : n \in 0..MaxProbes }

InitProbe ==
    /\ InitProg
    /\ idcode_call = NoCall
    /\ blocks_call = NoCall
    /\ write_call = NoCall
    /\ regs_call = NoCall
    /\ fault_call = NoCall
    /\ registry = NoCall
    /\ writers = NoCall
    /\ symbols_call = NoCall
    /\ step_call = NoCall
    /\ checksum = NoCall
    /\ \E l \in ProbeLists, req \in RequestedIdentities :
          probe_call =
            [ pc |-> "resolve",
              probes |-> [ i \in 1..Len(l) |-> [ uid |-> << "uid", i >>, mcu |-> l[i] ] ],
              mcu |-> req, result |-> [ status |-> "none" ] ]

\* raise RuntimeError(text): the fixed text, and the probes the text lists.
\* Formatting the identity None with `:20s` raises TypeError instead.
ProbeError(text, probes) ==
    IF \E i \in 1..Len(probes) : probes[i].mcu = << >>
    THEN [ status |-> "error", type |-> "TypeError",
           text |-> << "unsupported", "format", "string", "passed", "to",
                       "NoneType.__format__" >>,
           listing |-> << >> ]
    ELSE [ status |-> "error", type |-> "RuntimeError", text |-> text,
           listing |-> [ i \in 1..Len(probes) |-> probes[i].mcu ] ]

\* Mutant: with no request the first connected probe is taken.
AutoSelect_First(probes) == Len(probes) >= 1

\* if len(probes) == 1
AutoSelect(probes) == Len(probes) = 1

\* Mutant: one pass in which any of the three tests selects.
Matches_AnyPass(pass, p, mcu_lower) ==
    /\ p.mcu # << >>
    /\ \/ str_lower(p.mcu) = mcu_lower
       \/ startswith(str_lower(p.mcu), mcu_lower)
       \/ startswith(mcu_lower, Slice(str_lower(p.mcu), 10))

\* The test of each of the three loops over the probes.
Matches(pass, p, mcu_lower) ==
    /\ p.mcu # << >>
    /\ CASE pass = 1 -> str_lower(p.mcu) = mcu_lower
         [] pass = 2 -> startswith(str_lower(p.mcu), mcu_lower)
         [] pass = 3 -> startswith(mcu_lower, Slice(str_lower(p.mcu), 10))

\* for p in probes: if <test of the pass>: return ...  (0: the loop fell through)
FirstMatch(pass, probes, mcu_lower) ==
    IF \E i \in 1..Len(probes) : Matches(pass, probes[i], mcu_lower)
    THEN CHOOSE i \in 1..Len(probes) :
            /\ Matches(pass, probes[i], mcu_lower)
            /\ \A j \in 1..(i - 1) : ~Matches(pass, probes[j], mcu_lower)
    ELSE 0

\* resolve_probe(mcu) on the list list_probes returned.
resolve_probe_call ==
    /\ probe_call.pc = "resolve"
    /\ LET c == probe_call
           probes == c.probes
           mcu_lower == str_lower(c.mcu)
           exact == FirstMatch(1, probes, mcu_lower)
           prefix == FirstMatch(2, probes, mcu_lower)
           reverse == FirstMatch(3, probes, mcu_lower)
           Found(i, target) == [ status |-> "ok", uid |-> probes[i].uid, mcu |-> target ]
           r == IF probes = << >>
                THEN [ status |-> "error", type |-> "RuntimeError",
                       text |-> << "no", "probe", "connected" >>, listing |-> << >> ]
                ELSE IF c.mcu = << >>
                THEN IF AutoSelect(probes)
                     THEN IF probes[1].mcu = << >>
                          THEN [ status |-> "error", type |-> "RuntimeError",
                                 text |-> << "mcu", "not", "detected", "give", "--mcu" >>,
                                 listing |-> << >> ]
                          ELSE Found(1, probes[1].mcu)
                     ELSE ProbeError(<< "several", "probes", "give", "--mcu" >>, probes)
                ELSE IF exact # 0 THEN Found(exact, probes[exact].mcu)
                ELSE IF prefix # 0 THEN Found(prefix, probes[prefix].mcu)
                ELSE IF reverse # 0 THEN Found(reverse, c.mcu)
                ELSE ProbeError(<< "no", "probe", "for", "mcu" >>, probes)
       IN  probe_call' = [ c EXCEPT !.result = r, !.pc = "done" ]
    /\ UNCHANGED << progVars, idcode_call, blocks_call, write_call, regs_call, fault_call,
                    registry, writers, symbols_call, step_call, checksum >>

NextProbe == resolve_probe_call

SpecProbe == InitProbe /\ [][NextProbe]_vars

\* ------------------------------------------- list_probes and the probe cache
\* SpecRegistry: list_probes is called MaxCalls times in one process, one call
\* after the other, over the cache file probe_cache.json.  Probes are named by
\* their unique ids 1..MaxProbes and listed in that order; which of them are
\* connected is chosen anew at every call.  An identity is a target name, "None"
\* is Python's None, and "absent" is a key the mapping does not have.
\*
\* The file is [shape, probes]: "missing" (no file), "garbage" (json.load raises
\* JSONDecodeError), "list" (valid JSON whose top level is not an object) or
\* "dict" (the v2 format, probes the uid -> mcu mapping of its "probes" key).
\* Failure model of the transient detection connection: the open, the register
\* reads, the reset and the close may each raise.

\* load_probe_cache: a missing file and a JSONDecodeError give {}; data.get on
\* a top level that is not an object raises AttributeError, which the except
\* clause (JSONDecodeError, KeyError) does not catch.
load_probe_cache(file) ==
    CASE file.shape = "missing" -> [ raised |-> "none", probes |-> [ u \in 1..MaxProbes |-> "absent" ] ]
      [] file.shape = "garbage" -> [ raised |-> "none", probes |-> [ u \in 1..MaxProbes |-> "absent" ] ]
      [] file.shape = "list"    -> [ raised |-> "AttributeError", probes |-> [ u \in 1..MaxProbes |-> "absent" ] ]
      [] OTHER                  -> [ raised |-> "none", probes |-> file.probes ]

\* update_probe_cache as one entry alone, without the load (differs from the
\* code: the entries already in the file are dropped).
update_probe_cache_NoMerge(file, uid, mcu) ==
    [ shape |-> "dict",
      probes |-> [ u \in 1..MaxProbes |-> IF u = uid THEN mcu ELSE "absent" ] ]

\* update_probe_cache (with save_probe_cache): load the file, set the entry of
\* uid, write the whole mapping back in the v2 format.
update_probe_cache(file, uid, mcu) ==
    [ shape |-> "dict",
      probes |-> [ load_probe_cache(file).probes EXCEPT ![uid] = mcu ] ]

\* detect_mcu_from_board_info with _normalize_target: no board metadata gives
\* None, an STM32 target name loses its package suffix, any other name is kept.
detect_mcu_from_board_info(target) ==
    CASE target = "None"          -> "None"
      [] target = "stm32f407vgtx" -> "stm32f407vg"
      [] OTHER                    -> target

\* detect_mcu_from_idcode by what the connection does: an open that raises and
\* reads that all raise or all give 0 return None; a reset that raises is
\* swallowed; a close that raises leaves the finally as an exception.
detect_mcu_from_idcode(outcome) ==
    CASE outcome = "open_failed"  -> [ raised |-> FALSE, mcu |-> "None" ]
      [] outcome = "read_failed"  -> [ raised |-> FALSE, mcu |-> "None" ]
      [] outcome = "no_idcode"    -> [ raised |-> FALSE, mcu |-> "None" ]
      [] outcome = "reset_failed" -> [ raised |-> FALSE, mcu |-> "stm32h750xx" ]
      [] outcome = "close_failed" -> [ raised |-> TRUE,  mcu |-> "None" ]
      [] OTHER                    -> [ raised |-> FALSE, mcu |-> "stm32h750xx" ]

\* Step 2 of the loop without the cache (differs from the code).
from_cache_Skipped(cache, uid, mcu) == mcu

\* Step 2 of the loop: the cache loaded at the start of the call is asked only
\* when the board metadata gave nothing.
from_cache(cache, uid, mcu) ==
    IF mcu = "None" /\ cache[uid] # "absent" THEN cache[uid] ELSE mcu

InitRegistry ==
    /\ InitProg
    /\ idcode_call = NoCall
    /\ blocks_call = NoCall
    /\ write_call = NoCall
    /\ regs_call = NoCall
    /\ fault_call = NoCall
    /\ probe_call = NoCall
    /\ writers = NoCall
    /\ symbols_call = NoCall
    /\ step_call = NoCall
    /\ checksum = NoCall
    /\ \E shape \in {"missing", "garbage", "list", "dict"},
          probes \in [ 1..MaxProbes -> {"absent", "stm32f103xb"} ],
          board \in [ 1..MaxProbes -> {"None", "stm32f407vgtx"} ] :
          /\ shape # "dict" => \A u \in 1..MaxProbes : probes[u] = "absent"
          /\ registry =
                [ pc |-> "idle", calls |-> 0,
                  file |-> [ shape |-> shape, probes |-> probes ],
                  board |-> board, connected |-> {},
                  cache |-> probes, result |-> << >>, error |-> "none",
                  \* ghosts: the file at the start of the call, the outcome of
                  \* the detection of each probe in this call, the probes this
                  \* call wrote to the cache, and the identities that detection
                  \* gave in the calls before this one and up to now
                  before |-> [ shape |-> shape, probes |-> probes ],
                  outcome |-> [ u \in 1..MaxProbes |-> "not_run" ],
                  updated |-> {},
                  detected_before |-> [ u \in 1..MaxProbes |-> "absent" ],
                  detected |-> [ u \in 1..MaxProbes |-> "absent" ] ]

\* list_probes up to the loop: the connected probes, load_probe_cache.
list_probes_begin ==
    /\ registry.pc \in {"idle", "returned", "raised"}
    /\ registry.calls < MaxCalls
    /\ \E connected \in SUBSET (1..MaxProbes) :
         LET g == registry
             l == load_probe_cache(g.file)
         IN  registry' =
                [ g EXCEPT !.pc = IF l.raised = "none" THEN "loop" ELSE "raised",
                           !.error = l.raised,
                           !.calls = @ + 1,
                           !.connected = connected,
                           !.cache = l.probes,
                           !.result = << >>,
                           !.before = g.file,
                           !.outcome = [ u \in 1..MaxProbes |-> "not_run" ],
                           !.updated = {},
                           !.detected_before = g.detected ]
    /\ UNCHANGED << progVars, idcode_call, blocks_call, write_call, regs_call, fault_call, probe_call,
                    writers, symbols_call, step_call, checksum >>

\* One iteration of the loop of list_probes, for the next connected probe.
list_probes_probe ==
    /\ registry.pc = "loop"
    /\ LET g == registry
           rest == g.connected \ { g.result[k].uid : k \in DOMAIN g.result }
       IN  /\ rest # {}
           /\ LET uid == CHOOSE u \in rest : \A v \in rest : u <= v
                  mcu1 == from_cache(g.cache, uid,
                                     detect_mcu_from_board_info(g.board[uid]))
              IN  \E o \in IF mcu1 = "None"
                           THEN {"open_failed", "read_failed", "no_idcode",
                                 "reset_failed", "close_failed", "identified"}
                           ELSE {"not_run"} :
                    LET d == IF mcu1 = "None" THEN detect_mcu_from_idcode(o)
                             ELSE [ raised |-> FALSE, mcu |-> "None" ]
                        mcu == IF mcu1 = "None" THEN d.mcu ELSE mcu1
                        f1 == IF d.mcu # "None"
                              THEN update_probe_cache(g.file, uid, mcu)
                              ELSE g.file
                        again == mcu # "None" /\ g.cache[uid] # mcu
                        f2 == IF again THEN update_probe_cache(f1, uid, mcu)
                              ELSE f1
                    IN  IF d.raised
                        THEN registry' =
                               [ g EXCEPT !.pc = "raised", !.error = "CloseError",
                                          !.outcome[uid] = o ]
                        ELSE registry' =
                               [ g EXCEPT !.file = f2,
                                          !.result = Append(@, [ uid |-> uid, mcu |-> mcu ]),
                                          !.outcome[uid] = o,
                                          !.updated = IF d.mcu # "None" \/ again
                                                      THEN @ \cup {uid} ELSE @,
                                          !.detected[uid] = IF d.mcu # "None"
                                                            THEN d.mcu ELSE @ ]
    /\ UNCHANGED << progVars, idcode_call, blocks_call, write_call, regs_call, fault_call, probe_call,
                    writers, symbols_call, step_call, checksum >>

\* The loop is over: list_probes returns result.
list_probes_return ==
    /\ registry.pc = "loop"
    /\ registry.connected = { registry.result[k].uid : k \in DOMAIN registry.result }
    /\ registry' = [ registry EXCEPT !.pc = "returned" ]
    /\ UNCHANGED << progVars, idcode_call, blocks_call, write_call, regs_call, fault_call, probe_call,
                    writers, symbols_call, step_call, checksum >>

SpecRegistry ==
    InitRegistry /\ [][list_probes_begin \/ list_probes_probe \/ list_probes_return]_vars

\* ------------------------------------------ two writers of the probe cache
\* SpecWriters: two processes each run update_probe_cache once, for different
\* probe ids, on the same probe_cache.json; their steps interleave freely.  A
\* step is one system call on the file: the read of the load, the open(.., "w")
\* of the save, which truncates, and the write of the buffered text when the
\* with block closes the file, at the writer's own offset 0.
\*
\* The text of the file is a sequence of units: 0 is the head of the document
\* up to the "probes" key, 100 its tail, and 10 * k + j is part j of the entry
\* of key k.  Key 0 is an entry the file had before, key w the entry of writer
\* w's probe; entry w is entry_len[w] units long (uid, mcu, board and name
\* differ in length from probe to probe).

\* json.dump of save_probe_cache: the head, the entries in the order of the
\* dict, the tail.
json_dump(keys, entry_len) ==
    LET Entry(k) == [ j \in 1..entry_len[k] |-> 10 * k + j ]
        Entries[n \in 0..Len(keys)] ==
            IF n = 0 THEN << >> ELSE Entries[n - 1] \o Entry(keys[n])
    IN  <<0>> \o Entries[Len(keys)] \o <<100>>

\* load_probe_cache on the text: the keys of a whole document; {} for a file
\* that is empty or is no document (JSONDecodeError).
json_load(text, entry_len) ==
    LET Docs == { << >>, <<0>>, <<1>>, <<2>>, <<0, 1>>, <<0, 2>>, <<1, 2>>, <<2, 1>>,
                  <<0, 1, 2>>, <<0, 2, 1>> }
    IN  IF \E keys \in Docs : json_dump(keys, entry_len) = text
        THEN CHOOSE keys \in Docs : json_dump(keys, entry_len) = text
        ELSE << >>

InitWriters ==
    /\ InitProg
    /\ idcode_call = NoCall
    /\ blocks_call = NoCall
    /\ write_call = NoCall
    /\ regs_call = NoCall
    /\ fault_call = NoCall
    /\ probe_call = NoCall
    /\ registry = NoCall
    /\ symbols_call = NoCall
    /\ step_call = NoCall
    /\ checksum = NoCall
    /\ \E len1, len2 \in 1..MaxEntryLen, had \in {<< >>, <<0>>} :
         LET entry_len == [ k \in 0..2 |-> CASE k = 1 -> len1 [] k = 2 -> len2 [] OTHER -> 1 ]
         IN  writers =
                [ pc |-> [ w \in 1..2 |-> "load" ],
                  entry_len |-> entry_len,
                  text |-> json_dump(had, entry_len),
                  cache |-> [ w \in 1..2 |-> << >> ],
                  \* ghosts: the writers whose save was complete when w loaded,
                  \* and the writers in the order in which their saves ended
                  saved_at_load |-> [ w \in 1..2 |-> {} ],
                  saved |-> << >> ]

\* cache = load_probe_cache(); cache[uid] = {...}: a key the mapping has keeps
\* its place, a new key goes to the end.
writer_load(w) ==
    /\ writers.pc[w] = "load"
    /\ LET loaded == json_load(writers.text, writers.entry_len)
           merged == IF \E i \in DOMAIN loaded : loaded[i] = w
                     THEN loaded ELSE Append(loaded, w)
       IN  writers' =
              [ writers EXCEPT !.pc[w] = "open",
                               !.cache[w] = merged,
                               !.saved_at_load[w] =
                                   { writers.saved[i] : i \in DOMAIN writers.saved } ]
    /\ UNCHANGED << progVars, idcode_call, blocks_call, write_call, regs_call, fault_call, probe_call,
                    registry, symbols_call, step_call, checksum >>

\* save_probe_cache, open(PROBE_CACHE_PATH, "w"): the file is cut to length 0.
writer_open(w) ==
    /\ writers.pc[w] = "open"
    /\ writers' = [ writers EXCEPT !.pc[w] = "write", !.text = << >> ]
    /\ UNCHANGED << progVars, idcode_call, blocks_call, write_call, regs_call, fault_call, probe_call,
                    registry, symbols_call, step_call, checksum >>

\* save_probe_cache, end of the with block: the buffered document is written at
\* offset 0 of the writer's file object, over what the file holds there; what
\* lies beyond its end stays.
writer_write(w) ==
    /\ writers.pc[w] = "write"
    /\ LET out == json_dump(writers.cache[w], writers.entry_len)
           old == writers.text
       IN  writers' =
              [ writers EXCEPT !.pc[w] = "done",
                               !.text = out \o SubSeq(old, Len(out) + 1, Len(old)),
                               !.saved = Append(@, w) ]
    /\ UNCHANGED << progVars, idcode_call, blocks_call, write_call, regs_call, fault_call, probe_call,
                    registry, symbols_call, step_call, checksum >>

SpecWriters ==
    InitWriters /\ [][\E w \in 1..2 : writer_load(w) \/ writer_open(w) \/ writer_write(w)]_vars

\* ------------------------------------------------------ _resolve_symbols
\* SpecSymbols: one call of _resolve_symbols(elf, names) on the output of
\* arm-none-eabi-nm --demangle --print-size, which ran with exit status 0.
\* A symbol of the binary is [addr, sized, size, type, name]: nm prints
\* "addr size type name" for a symbol with a size and "addr type name" for one
\* without, the name demangled, so that it may hold spaces ("f(int, char)").
\* Names and requested names are sequences of characters; symbols carry their
\* position as address.

\* One line of the nm output as the loop at `for line in r.stdout.splitlines()`
\* reads it: parts = line.split(), symbol = parts[-1], addr = int(parts[0], 16),
\* sym_size = int(parts[1], 16) when there are four parts or more, 0 when that
\* is no hexadecimal number ("T") -- and 13 when it is the type letter "D".
ParseLine(line) ==
    LET spaces == { i \in DOMAIN line.name : line.name[i] = " " }
        parts == 1 + (IF line.sized THEN 1 ELSE 0) + 1 + (Cardinality(spaces) + 1)
        last == IF spaces = {} THEN 0
                ELSE CHOOSE i \in spaces : \A j \in spaces : j <= i
    IN  [ symbol |-> SubSeq(line.name, last + 1, Len(line.name)),
          addr |-> line.addr,
          sym_size |-> IF parts < 4 THEN 0
                       ELSE IF line.sized THEN line.size
                       ELSE IF line.type = "D" THEN 13 ELSE 0 ]

\* The inner loop with an exact comparison in place of `name in symbol`
\* (differs from the code).
Lookup_Exact(table, name) ==
    LET hits == { i \in DOMAIN table : table[i].symbol = name }
    IN  IF hits = {} THEN 0 ELSE CHOOSE i \in hits : \A j \in hits : i <= j

\* The inner loop: the index of the first table entry with `name in symbol`,
\* 0 when the loop ends with found still None.
Lookup(table, name) ==
    LET hits == { i \in DOMAIN table : Contains(table[i].symbol, name) }
    IN  IF hits = {} THEN 0 ELSE CHOOSE i \in hits : \A j \in hits : i <= j

InitSymbols ==
    /\ InitProg
    /\ idcode_call = NoCall
    /\ blocks_call = NoCall
    /\ write_call = NoCall
    /\ regs_call = NoCall
    /\ fault_call = NoCall
    /\ probe_call = NoCall
    /\ registry = NoCall
    /\ writers = NoCall
    /\ step_call = NoCall
    /\ checksum = NoCall
    /\ \E n \in 0..MaxSymbols, m \in 0..MaxNames :
       \E name \in [ 1..n -> { <<"a">>, <<"a", "b">>, <<"a", " ", "b">> } ],
          sized \in [ 1..n -> BOOLEAN ],
          type \in [ 1..n -> {"T", "D"} ],
          names \in [ 1..m -> { <<"a">>, <<"b">>, <<"c">> } ] :
            symbols_call =
               [ pc |-> "call",
                 lines |-> [ i \in 1..n |->
                              [ addr |-> i, sized |-> sized[i],
                                size |-> IF sized[i] THEN 4 ELSE 0,
                                type |-> type[i], name |-> name[i] ] ],
                 names |-> names,
                 result |-> [ status |-> "none", found |-> << >>, missing |-> << >> ] ]

\* _resolve_symbols after nm returned: the table, then one lookup per name in
\* the order of the request; the first name without a hit raises ValueError
\* with that name in its message.
resolve_symbols_call ==
    /\ symbols_call.pc = "call"
    /\ LET c == symbols_call
           table == [ i \in DOMAIN c.lines |-> ParseLine(c.lines[i]) ]
           misses == { k \in DOMAIN c.names : Lookup(table, c.names[k]) = 0 }
           r == IF misses = {}
                THEN [ status |-> "ok",
                       found |-> [ k \in DOMAIN c.names |->
                                    LET e == table[Lookup(table, c.names[k])]
                                    IN  [ addr |-> e.addr, size |-> e.sym_size ] ],
                       missing |-> << >> ]
                ELSE [ status |-> "ValueError",
                       found |-> << >>,
                       missing |-> c.names[CHOOSE k \in misses : \A j \in misses : k <= j] ]
       IN  symbols_call' = [ c EXCEPT !.pc = "done", !.result = r ]
    /\ UNCHANGED << progVars, idcode_call, blocks_call, write_call, regs_call, fault_call, probe_call,
                    registry, writers, step_call, checksum >>

SpecSymbols == InitSymbols /\ [][resolve_symbols_call]_vars

\* ---------------------------------------------------------------- cmd_step
\* SpecStep: the body of one cmd_step call seen at the level of the program
\* counter.  The target is RUNNING or HALTED when the Session is open and its pc
\* is an even address below 2 * WordModulus; while it runs its pc moves, and one
\* core.step() leaves it halted at any such address.  The count argument is the
\* text of the command line: nothing (<< >>) or a decimal number.
\* core.read_core_register("pc") and core.step() in the loop may raise, which
\* ends the handler through its finally; the reads of the final snapshot are
\* guarded one by one.

\* steps.append({...}) for the iteration with index i of range(count).
StepRecord_ZeroBased(i, pc_before, pc_after) ==
    [ step |-> i, pc_before |-> Hex08X(pc_before), pc_after |-> Hex08X(pc_after) ]

StepRecord(i, pc_before, pc_after) ==
    [ step |-> i + 1, pc_before |-> Hex08X(pc_before), pc_after |-> Hex08X(pc_after) ]

InitStep ==
    /\ InitProg
    /\ idcode_call = NoCall
    /\ blocks_call = NoCall
    /\ write_call = NoCall
    /\ regs_call = NoCall
    /\ fault_call = NoCall
    /\ probe_call = NoCall
    /\ registry = NoCall
    /\ writers = NoCall
    /\ symbols_call = NoCall
    /\ checksum = NoCall
    /\ \E count \in {<< >>} \cup { <<n>> : n \in 0..MaxSteps },
          state \in {"RUNNING", "HALTED"},
          at \in { 2 * w : w \in 0..(WordModulus - 1) } :
          step_call =
             [ pc |-> "begin", arg |-> count, count |-> 0,
               state |-> state, target_pc |-> at,
               steps |-> << >>, registers |-> [ pc |-> <<"m">> ], result_state |-> "none",
               \* ghosts: the state at entry, and for each core.step() the
               \* target's pc before and after it and its state before it
               entry |-> state, executed |-> << >> ]

\* count = int(args.count) if args.count else 1; then, inside the try,
\* `if not core.is_halted(): core.halt()`.  A running target has moved on.
cmd_step_begin ==
    /\ step_call.pc = "begin"
    /\ \E at \in IF step_call.state = "RUNNING"
                 THEN { 2 * w : w \in 0..(WordModulus - 1) }
                 ELSE { step_call.target_pc } :
         step_call' =
            [ step_call EXCEPT !.pc = "loop",
                               !.count = IF step_call.arg = << >> THEN 1
                                         ELSE step_call.arg[1],
                               !.state = "HALTED",
                               !.target_pc = at ]
    /\ UNCHANGED << progVars, idcode_call, blocks_call, write_call, regs_call, fault_call, probe_call,
                    registry, writers, symbols_call, checksum >>

\* One iteration of `for i in range(count)`: read pc, core.step(), read pc,
\* append the record; or one of the three calls raises.
cmd_step_once ==
    /\ step_call.pc = "loop"
    /\ Len(step_call.steps) < step_call.count
    /\ LET c == step_call
           i == Len(c.steps)
       IN  \/ step_call' = [ c EXCEPT !.pc = "raised" ]
           \/ \E after \in { 2 * w : w \in 0..(WordModulus - 1) } :
                \/ step_call' =
                      [ c EXCEPT !.target_pc = after,
                                 !.executed = Append(@, [ before |-> c.target_pc,
                                                          after |-> after,
                                                          state |-> c.state ]),
                                 !.steps = Append(@, StepRecord(i, c.target_pc, after)) ]
                \/ step_call' =
                      [ c EXCEPT !.pc = "raised",
                                 !.target_pc = after,
                                 !.executed = Append(@, [ before |-> c.target_pc,
                                                          after |-> after,
                                                          state |-> c.state ]) ]
    /\ UNCHANGED << progVars, idcode_call, blocks_call, write_call, regs_call, fault_call, probe_call,
                    registry, writers, symbols_call, checksum >>

\* After the loop: the snapshot of the eight registers, each read in its own
\* try (pc is in it, or missing, <<"m">>, when its read raised), and the return with
\* "state": "HALTED".
cmd_step_return ==
    /\ step_call.pc = "loop"
    /\ Len(step_call.steps) = step_call.count
    /\ \E pc_read \in BOOLEAN :
         step_call' =
            [ step_call EXCEPT !.pc = "done",
                               !.registers = IF pc_read
                                             THEN [ pc |-> Hex08X(step_call.target_pc) ]
                                             ELSE [ pc |-> <<"m">> ],
                               !.result_state = "HALTED" ]
    /\ UNCHANGED << progVars, idcode_call, blocks_call, write_call, regs_call, fault_call, probe_call,
                    registry, writers, symbols_call, checksum >>

SpecStep == InitStep /\ [][cmd_step_begin \/ cmd_step_once \/ cmd_step_return]_vars

\* ------------------------------------------- lib_checksum and the two hooks
\* SpecChecksum: the snapshot files of lib_checksum.py under the SessionStart
\* hook (save_snapshot), the PostToolUse hook embedded_post_test_snapshot.py
\* and the Stop hook embedded_stop_check_tests.py, one session after the other.
\* The project directory resolves, the temporary directory takes writes and
\* unlinks, every hook input carries its session_id (so the shared snapshot
\* names of _load_reference's third step are never written), and the first
\* session may have begun before the hooks were installed.
\*
\* lib is the content of lib/**/*.{cc,hh} as compute_checksums sees it: for
\* each of the two paths its MD5 digest (1 or 2), 0 for a file that does not
\* exist.
\* A snapshot file holds such a mapping; << >> is a file that is not there.
\* Session ids are named by their last twelve characters.

\* _load_reference: the session's tested snapshot if it can be read, else the
\* session's baseline, else None (<< >>).
load_reference_BaselineFirst(c) ==
    IF c.baseline[c.sid] # << >> THEN c.baseline[c.sid] ELSE c.tested[c.sid]

load_reference(c) ==
    IF c.tested[c.sid] # << >> THEN c.tested[c.sid] ELSE c.baseline[c.sid]

\* changed_files for a reference that was found: the current paths whose
\* digest differs from old.get(path), then the old paths that are gone.
changed_files(old, current) ==
    { p \in DOMAIN current : current[p] # 0 /\ old[p] # current[p] }
        \cup { p \in DOMAIN old : old[p] # 0 /\ current[p] = 0 }

InitChecksum ==
    /\ InitProg
    /\ idcode_call = NoCall
    /\ blocks_call = NoCall
    /\ write_call = NoCall
    /\ regs_call = NoCall
    /\ fault_call = NoCall
    /\ probe_call = NoCall
    /\ registry = NoCall
    /\ writers = NoCall
    /\ symbols_call = NoCall
    /\ step_call = NoCall
    /\ \E lib \in [ 1..2 -> 0..2 ], sid \in {"s1", "s2"} :
         checksum =
            [ pc |-> "init", sid |-> sid, lib |-> lib,
              baseline |-> [ s \in {"s1", "s2"} |-> << >> ],
              tested |-> [ s \in {"s1", "s2"} |-> << >> ],
              changed |-> {}, exit |-> 0,
              starts |-> 0, edits |-> 0,
              \* ghosts: save_snapshot and mark_tested ran in this session, lib
              \* as it was then; the outcome of the test run the PostToolUse
              \* hook was called for and the tested snapshot before the hook
              started |-> FALSE, at_start |-> lib,
              marked |-> FALSE, at_mark |-> lib,
              run_passed |-> FALSE, tested_before |-> << >> ]

\* SessionStart of a session with id s: save_snapshot writes the baseline and
\* unlinks the tested snapshot of the same name.
save_snapshot ==
    /\ checksum.starts < MaxStarts
    /\ \E s \in {"s1", "s2"} :
         checksum' =
            [ checksum EXCEPT !.pc = "start", !.sid = s,
                              !.baseline[s] = checksum.lib,
                              !.tested[s] = << >>,
                              !.starts = @ + 1,
                              !.changed = {}, !.exit = 0,
                              !.started = TRUE, !.at_start = checksum.lib,
                              !.marked = FALSE, !.at_mark = checksum.lib,
                              !.run_passed = FALSE, !.tested_before = << >> ]
    /\ UNCHANGED << progVars, idcode_call, blocks_call, write_call, regs_call, fault_call, probe_call,
                    registry, writers, symbols_call, step_call >>

\* A file under lib/ is added, modified or deleted (what compute_checksums
\* will read next time).
lib_change ==
    /\ checksum.edits < MaxEdits
    /\ \E p \in 1..2, d \in 0..2 :
         /\ d # checksum.lib[p]
         /\ checksum' = [ checksum EXCEPT !.pc = "edit", !.lib[p] = d, !.edits = @ + 1,
                                          !.changed = {}, !.exit = 0,
                                          !.run_passed = FALSE,
                                          !.tested_before = << >> ]
    /\ UNCHANGED << progVars, idcode_call, blocks_call, write_call, regs_call, fault_call, probe_call,
                    registry, writers, symbols_call, step_call >>

\* embedded_post_test_snapshot.py main, called after a tool call returned: for
\* a tool named ...run_tests and for a Bash command matching \bxmake\s+test\b
\* it calls mark_tested, which writes the tested snapshot; tool_response, and
\* with it whether the tests passed, is not read.
post_test_snapshot ==
    /\ \E tool \in {"mcp__embedded__run_tests", "Bash: xmake test", "Bash: xmake build"},
          passed \in BOOLEAN :
         LET c == checksum
             mark == tool \in {"mcp__embedded__run_tests", "Bash: xmake test"}
         IN  checksum' =
                [ c EXCEPT !.pc = IF mark THEN "post_test" ELSE "post_other",
                           !.tested[c.sid] = IF mark THEN c.lib ELSE @,
                           !.changed = {}, !.exit = 0,
                           !.marked = IF mark THEN TRUE ELSE @,
                           !.at_mark = IF mark THEN c.lib ELSE @,
                           !.run_passed = mark /\ passed,
                           !.tested_before = IF mark THEN c.tested[c.sid] ELSE << >> ]
    /\ UNCHANGED << progVars, idcode_call, blocks_call, write_call, regs_call, fault_call, probe_call,
                    registry, writers, symbols_call, step_call >>

\* embedded_stop_check_tests.py main: changed_files(); exit code 2 blocks the
\* stop when the list is not empty.  Without any snapshot changed_files falls
\* back to git diff, whose answer is any set of paths.
stop_check_tests ==
    /\ LET c == checksum
           old == load_reference(c)
       IN  \E git \in SUBSET (1..2) :
             /\ old # << >> => git = {}
             /\ LET changed == IF old = << >> THEN git ELSE changed_files(old, c.lib)
                IN  checksum' = [ c EXCEPT !.pc = "stop", !.changed = changed,
                                           !.exit = IF changed # {} THEN 2 ELSE 0,
                                           !.run_passed = FALSE,
                                           !.tested_before = << >> ]
    /\ UNCHANGED << progVars, idcode_call, blocks_call, write_call, regs_call, fault_call, probe_call,
                    registry, writers, symbols_call, step_call >>

SpecChecksum ==
    InitChecksum /\ [][save_snapshot \/ lib_change \/ post_test_snapshot \/ stop_check_tests]_vars

\* ------------------------------------------------------------ _read_blocks
\* SpecBlocks: one _read_blocks call as cmd_read, cmd_read_symbol and
\* cmd_read_symbols make it: the blocks are (name, address, size) of the
\* requested names in request order, a name always with the address and size
\* it resolved to.  The byte of target memory at address a is a + 1, so that
\* every byte of a block is told from its neighbours.

\* target.read_memory_block32(addr, word_count): the words at addr, addr + 4,
\* ..., each word the little-endian value of its four bytes.
read_blocks_words(addr, word_count) ==
    [ i \in 1..word_count |->
        LET a == addr + 4 * (i - 1)
        IN  (a + 1) + 256 * (a + 2) + 65536 * (a + 3) + 16777216 * (a + 4) ]

\* Mutant: the payload keeps every byte of the words read.
raw_Padded(words, size) ==
    [ j \in 1..(4 * Len(words)) |->
        (words[((j - 1) \div 4) + 1] \div Pow(256, (j - 1) % 4)) % 256 ]

\* raw = b"".join(struct.pack("<I", w) for w in words)[:size]
\* as the sequence of its bytes, for size >= 0.
raw(words, size) ==
    LET packed == [ j \in 1..(4 * Len(words)) |->
                      (words[((j - 1) \div 4) + 1] \div Pow(256, (j - 1) % 4)) % 256 ]
    IN  SubSeq(packed, 1, IF size < Len(packed) THEN size ELSE Len(packed))

InitBlocks ==
    /\ InitProg
    /\ idcode_call = NoCall
    /\ write_call = NoCall
    /\ regs_call = NoCall
    /\ fault_call = NoCall
    /\ probe_call = NoCall
    /\ registry = NoCall
    /\ writers = NoCall
    /\ symbols_call = NoCall
    /\ step_call = NoCall
    /\ checksum = NoCall
    /\ \E resolved \in [ {"a", "b"} -> [ addr : {0, 4}, size : 0..MaxBlockBytes ] ],
          n \in 1..MaxBlocks :
       \E names \in [ 1..n -> {"a", "b"} ] :
          blocks_call =
             [ pc |-> "loop",
               blocks |-> [ i \in 1..n |-> [ key |-> names[i],
                                             addr |-> resolved[names[i]].addr,
                                             size |-> resolved[names[i]].size ] ],
               i |-> 1,
               result |-> << >>,
               \* ghost: the transfers made, in order
               transfers |-> << >> ]

\* One turn of `for key, addr, size in blocks`: the transfer of
\* (size + 3) // 4 words, which may raise, then result[key] with the words
\* as f"0x{w:08X}" and the payload as raw.hex() (two lowercase digits a byte).
read_blocks_block ==
    /\ blocks_call.pc = "loop"
    /\ blocks_call.i <= Len(blocks_call.blocks)
    /\ LET c == blocks_call
           b == c.blocks[c.i]
           word_count == (b.size + 3) \div 4
           words == read_blocks_words(b.addr, word_count)
           payload == raw(words, b.size)
           lower == << "0", "1", "2", "3", "4", "5", "6", "7", "8", "9",
                       "a", "b", "c", "d", "e", "f" >>
           entry == [ words |-> [ k \in 1..Len(words) |-> Hex08X(words[k]) ],
                      hex |-> [ k \in 1..Len(payload) |->
                                  << lower[(payload[k] \div 16) + 1],
                                     lower[(payload[k] % 16) + 1] >> ] ]
           log == Append(c.transfers, [ addr |-> b.addr, count |-> word_count ])
       IN  \/ blocks_call' =
                [ c EXCEPT !.result = [ x \in DOMAIN c.result \cup {b.key} |->
                                          IF x = b.key THEN entry ELSE c.result[x] ],
                           !.i = @ + 1,
                           !.transfers = log ]
           \/ blocks_call' = [ c EXCEPT !.pc = "raised", !.transfers = log ]
    /\ UNCHANGED << progVars, idcode_call, write_call, regs_call, fault_call, probe_call,
                    registry, writers, symbols_call, step_call, checksum >>

\* return result, after the last block.
read_blocks_return ==
    /\ blocks_call.pc = "loop"
    /\ blocks_call.i > Len(blocks_call.blocks)
    /\ blocks_call' = [ blocks_call EXCEPT !.pc = "done" ]
    /\ UNCHANGED << progVars, idcode_call, write_call, regs_call, fault_call, probe_call,
                    registry, writers, symbols_call, step_call, checksum >>

SpecBlocks == InitBlocks /\ [][read_blocks_block \/ read_blocks_return]_vars

\* --------------------------------------------- the decode of the ID code
\* SpecIdcode: detect_mcu_from_idcode from the open transient session on, up
\* to its return statement.  A word read is its value, or -1 for a read32
\* that raised.

\* The entries of the dict literal STM32_DEV_ID_TABLE for the identifiers
\* 0x413, 0x449 and 0x450, in source order; the literal has the key 0x449 twice.
STM32_DEV_ID_TABLE ==
    << [ key |-> 1097, val |-> "stm32f446xx" ],
       [ key |-> 1043, val |-> "stm32f407xx" ],
       [ key |-> 1097, val |-> "stm32f74xxx" ],
       [ key |-> 1104, val |-> "stm32h750xx" ] >>

\* Mutant: the table's answer is returned as it is.
idcode_mcu_TableOnly(dev_id, partno) ==
    LET hits == SelectSeq(STM32_DEV_ID_TABLE, LAMBDA e : e.key = dev_id)
        lower == << "0", "1", "2", "3", "4", "5", "6", "7", "8", "9",
                    "a", "b", "c", "d", "e", "f" >>
        Hex03x(v) == [ i \in 1..3 |-> lower[((v \div Pow(16, 3 - i)) % 16) + 1] ]
    IN  IF hits # << >> THEN << hits[Len(hits)].val >>
        ELSE << "unknown_stm32_devid_0x" >> \o Hex03x(dev_id) \o << "_" >>
               \o << "unknown-core-0x" >> \o Hex03x(partno)

\* mcu = STM32_DEV_ID_TABLE.get(dev_id) (a dict literal keeps the last value
\* given for a key); if mcu: 0x449 with partno 0xC24 is "stm32f446xx";
\* otherwise f"unknown_stm32_devid_0x{dev_id:03x}_{core_name}" with core_name
\* from core_map or f"unknown-core-0x{partno:03x}".  A string is the sequence
\* of its parts.
idcode_mcu(dev_id, partno) ==
    LET hits == SelectSeq(STM32_DEV_ID_TABLE, LAMBDA e : e.key = dev_id)
        lower == << "0", "1", "2", "3", "4", "5", "6", "7", "8", "9",
                    "a", "b", "c", "d", "e", "f" >>
        Hex03x(v) == [ i \in 1..3 |-> lower[((v \div Pow(16, 3 - i)) % 16) + 1] ]
        core_name == CASE partno = 3104 -> << "cortex-m0" >>
                       [] partno = 3168 -> << "cortex-m0+" >>
                       [] partno = 3107 -> << "cortex-m3" >>
                       [] partno = 3108 -> << "cortex-m4" >>
                       [] partno = 3111 -> << "cortex-m7" >>
                       [] partno = 3123 -> << "cortex-m33" >>
                       [] OTHER -> << "unknown-core-0x" >> \o Hex03x(partno)
    IN  IF hits # << >>
        THEN IF dev_id = 1097 /\ partno = 3108 THEN << "stm32f446xx" >>
             ELSE << hits[Len(hits)].val >>
        ELSE << "unknown_stm32_devid_0x" >> \o Hex03x(dev_id) \o << "_" >> \o core_name

\* What the target holds: CPUID of a Cortex-M4 (0x410FC241), a Cortex-M7
\* (0x411FC271), a Cortex-M0+ (0x410CC601) or a Cortex-M33 (0x410FD213), and
\* at each of the three DBGMCU_ADDRS nothing (0) or an ID code with device
\* identifier 0x449, 0x450, 0x413 or 0x4ff (not in the table).
InitIdcode ==
    /\ InitProg
    /\ blocks_call = NoCall
    /\ write_call = NoCall
    /\ regs_call = NoCall
    /\ fault_call = NoCall
    /\ probe_call = NoCall
    /\ registry = NoCall
    /\ writers = NoCall
    /\ symbols_call = NoCall
    /\ step_call = NoCall
    /\ checksum = NoCall
    /\ \E cpuid \in { -1, 1091551809, 1092600433, 1091356161, 1091555859 },
          idcodes \in [ 1..3 -> { -1, 0, 268461129, 537093200, 268452883, 268461311 } ] :
          idcode_call = [ pc |-> "reads", cpuid |-> cpuid, idcodes |-> idcodes,
                          partno |-> 0, dev_id |-> -1, mcu |-> << >> ]

\* The body of the second try up to its return: partno from CPUID (0 if the
\* read raised), dev_id from the first DBGMCU address whose read gives a word
\* other than 0, None (<< >>) if there is none, else the identity.
detect_mcu_from_idcode_decode ==
    /\ idcode_call.pc = "reads"
    /\ LET c == idcode_call
           partno == IF c.cpuid = -1 THEN 0 ELSE (c.cpuid \div 16) % 4096
           found == { k \in 1..3 : c.idcodes[k] \notin { -1, 0 } }
           dev_id == IF found = {} THEN -1
                     ELSE c.idcodes[CHOOSE k \in found : \A j \in found : k <= j] % 4096
       IN  idcode_call' =
             [ c EXCEPT !.pc = "done", !.partno = partno, !.dev_id = dev_id,
                        !.mcu = IF dev_id = -1 THEN << >>
                                ELSE idcode_mcu(dev_id, partno) ]
    /\ UNCHANGED << progVars, blocks_call, write_call, regs_call, fault_call, probe_call,
                    registry, writers, symbols_call, step_call, checksum >>

SpecIdcode == InitIdcode /\ [][detect_mcu_from_idcode_decode]_vars

\* ==================================================================== claims

\* The handler obtained a Session: open_session returned it and the try began.
SessionObtained == result.status = "ok" \/ result.kind \in {"target", "watchpoint"}

\* C1: every handler that obtained a Session from open_session has closed it
\* exactly once when it returns, on the normal path and when a target operation
\* raised; the Session is never open outside the handler's try/finally.
C1_SessionClosedExactlyOnce ==
    /\ closes <= 1
    /\ (pc = "returned" /\ SessionObtained) => (closes = 1 /\ ~mainOpen)
    /\ mainOpen => pc \in {"os_ok", "body", "finally"}

\* C1 witness: the series sampler returns through a raised block read, its
\* Session closed once.
C1_Witness ==
    /\ pc = "returned"
    /\ cmd = "series"
    /\ exc = "TargetError"
    /\ result.kind = "target"
    /\ closes = 1
    /\ ~mainOpen

\* C2 (as claimed): when open_session ends in a failure, no connection it
\* created is still open.
C2_NoConnectionLeftOnFailure ==
    pc = "os_failed" => (~recOpen /\ ~mainOpen)

\* C3 (as claimed): at most one Session to the probe is open in every state.
C3_AtMostOneOpenSession == OpenSessions <= 1

\* The latest _read_blocks call of the handler has ended (its finally ran).
ReadBlocksEnded ==
    /\ pc \in {"body", "finally"}
    /\ \/ ip > 1 /\ ip - 1 <= Len(Prog) /\ Prog[ip - 1] = "rb_finally"
       \/ pc = "finally" /\ ip <= Len(Prog) /\ Prog[ip] = "rb_finally"

\* C4: a read_blocks call with halt synchronisation leaves the target in the
\* run state it found: running at entry means running at the end, also when a
\* block read raised; halted at entry means halted at the end with no resume.
C4_ReadBlocksRestoresRunState ==
    (ReadBlocksEnded /\ args.halt) =>
        /\ hist.entry = "RUNNING" => tstate = "RUNNING"
        /\ hist.entry = "HALTED" => (tstate = "HALTED" /\ hist.resumes = 0)

\* C4 witness: a call that found the target running, halted it, had a block
\* read raise, and resumed it in its finally.
C4_Witness ==
    /\ ReadBlocksEnded
    /\ args.halt
    /\ exc = "TargetError"
    /\ loc.did_halt
    /\ hist.entry = "RUNNING"
    /\ hist.resumes = 1
    /\ tstate = "RUNNING"

\* C5 (as claimed): cmd_write leaves the target in the run state it found,
\* whatever the outcome of the block write and of the readback.
C5_WriteRestoresRunState ==
    (cmd = "write" /\ pc = "returned" /\ SessionObtained) => tstate = hist.entry

\* C6: when break_and_run has produced its HIT or TIMEOUT result the
\* breakpoint is not armed, with or without the reset pre-action, and no
\* breakpoint is armed while no Session is open (so none is left for the next call).
C6_BreakpointRemoved ==
    /\ (cmd = "break" /\ pc \in {"finally", "returned"} /\ result.status = "ok") => ~bp
    /\ ~mainOpen => ~bp

\* C6 witness: a TIMEOUT result after the reset pre-action re-armed the
\* breakpoint, before the Session is closed.
C6_Witness ==
    /\ cmd = "break"
    /\ pc = "finally"
    /\ result.status = "ok"
    /\ ~result.hit
    /\ args.do_reset
    /\ mainOpen
    /\ ~bp

\* C7 (as claimed): if the target halted before timeout_ms had elapsed since
\* the resume, break_and_run returns HIT.
C7_HaltBeforeDeadlineIsHit ==
    (/\ cmd = "break"
     /\ result.status = "ok"
     /\ hist.haltedAt >= 0
     /\ hist.haltedAt < args.timeout) => result.hit

\* C8: a break_and_run whose wait timed out returns a normal result (hit =
\* false) with a register snapshot after forcing a halt, and the target is
\* halted when the call returns, in the HIT as in the TIMEOUT outcome; the call
\* raises only when an operation of the driver raised.
C8_TimeoutIsNormalResult ==
    /\ (cmd = "break" /\ pc \in {"finally", "returned"} /\ result.status = "ok") =>
          /\ tstate = "HALTED"
          /\ result.regs
          /\ result.hit = loc.hit
          /\ ~result.hit => loc.forced
    /\ (cmd = "break" /\ pc = "returned" /\ SessionObtained /\ exc = "none") =>
          result.status = "ok"

\* C8 witness: the target never halted by itself, the call returned TIMEOUT
\* with the halt forced.
C8_Witness ==
    /\ cmd = "break"
    /\ pc = "returned"
    /\ result.status = "ok"
    /\ ~result.hit
    /\ result.regs
    /\ loc.forced
    /\ hist.haltedAt = -1
    /\ args.timeout > 0
    /\ tstate = "HALTED"

\* C9: when the first attempt fails with an error of a non-recoverable class,
\* open_session raises that error at once: no recovery connection, no reset,
\* no retry (the first open is the only driver call it made).
C9_NonRecoverableFailsAtOnce ==
    (Len(oslog) >= 1 /\ oslog[1].err \in NonRecoverableMsgs) =>
        /\ Len(oslog) = 1
        /\ pc \in {"os_failed", "returned"}
        /\ result.kind = "open_first"
        /\ result.first = oslog[1].err
        /\ ~recOpen
        /\ ~mainOpen

\* C9 witness: the probe is absent and open_session has failed after one call.
C9_Witness ==
    /\ pc = "os_failed"
    /\ Len(oslog) = 1
    /\ oslog[1].err = <<"No", "available", "debug", "probe">>
    /\ result.kind = "open_first"

\* The driver calls of a full open_session: first attempt, the recovery cycle
\* in its order, the retry with the caller's mode.
RecoverySequence(mode) ==
    << [op |-> "open", mode |-> mode],
       [op |-> "open", mode |-> "under-reset"],
       [op |-> "reset", mode |-> "under-reset"],
       [op |-> "close", mode |-> "under-reset"],
       [op |-> "sleep", mode |-> "none"],
       [op |-> "open", mode |-> mode] >>

\* C10: after a recoverable first error open_session runs the recovery cycle
\* once, in the order open under-reset, reset, close, settle delay, and, the
\* cycle having completed, retries the original open once with the same
\* connect_mode: its driver calls are always a prefix of that sequence (at most
\* two original opens, at most one cycle), each made only after the one before
\* succeeded, and the call does not end before the retry unless a step failed.
C10_OneRecoveryCycleThenOneRetry ==
    LET canon == RecoverySequence(ConnectMode(cmd)) IN
    /\ Len(oslog) <= Len(canon)
    /\ \A i \in 1..Len(oslog) :
          /\ oslog[i].op = canon[i].op
          /\ oslog[i].mode = canon[i].mode
          /\ (i > 1 /\ i < Len(oslog)) => oslog[i].err = NoErr
    /\ Len(oslog) > 1 => oslog[1].err \in RecoverableMsgs
    /\ (pc \in {"os_ok", "os_failed"} /\ oslog[1].err \in RecoverableMsgs) =>
          \/ Len(oslog) = Len(canon)
          \/ oslog[Len(oslog)].err # NoErr

\* C10 witness: the retry after a completed recovery cycle succeeded.
C10_Witness ==
    /\ pc = "os_ok"
    /\ Len(oslog) = 6
    /\ oslog[1].err \in RecoverableMsgs
    /\ mainOpen

\* C11: when the retry after a completed recovery cycle fails too, open_session
\* raises one error whose text holds the first attempt's error (on its "first
\* error" line) and the retry's error (on its "after recovery" line); a retry
\* that fails always ends the call with that error.
C11_RetryFailureHoldsBothErrors ==
    /\ result.kind = "retry_failed" =>
          /\ pc \in {"os_failed", "returned"}
          /\ result.status = "error"
          /\ Len(oslog) = 6
          /\ oslog[1].err # NoErr
          /\ oslog[6].err # NoErr
          /\ Contains(result.msg, <<"first_error:">> \o oslog[1].err)
          /\ Contains(result.msg, <<"after_recovery:">> \o oslog[6].err)
    /\ (pc \in {"os_failed", "returned"} /\ Len(oslog) = 6 /\ oslog[6].err # NoErr) =>
          result.kind = "retry_failed"

\* C11 witness: the first attempt and the retry failed with different errors.
C11_Witness ==
    /\ pc = "os_failed"
    /\ result.kind = "retry_failed"
    /\ oslog[1].err = <<"transfer", "fault">>
    /\ oslog[6].err = <<"No", "ACK">>

\* C12: when the driver reports that the watchpoint was not set, watch_and_run
\* raises at once: the set was called once, no later operation of the body ran
\* (no resume, no polling, no second set), the target is still halted, and the
\* caller gets the watchpoint error with the Session closed.
C12_WatchSetFailureIsExplicit ==
    hist.wp_refused =>
        /\ cmd = "watch"
        /\ pc \in {"finally", "returned"}
        /\ exc = "WatchpointNotSet"
        /\ ip = 1
        /\ hist.wp_sets = 1
        /\ hist.resumes = 0
        /\ elapsed = 0
        /\ loc = InitLoc
        /\ tstate = "HALTED"
        /\ ~wp
        /\ pc = "returned" =>
              /\ result.status = "error"
              /\ result.kind = "watchpoint"
              /\ closes = 1
              /\ ~mainOpen

\* C12 witness: watch_and_run has raised the watchpoint error, Session closed.
C12_Witness ==
    /\ cmd = "watch"
    /\ pc = "returned"
    /\ hist.wp_refused
    /\ result.kind = "watchpoint"
    /\ closes = 1

\* C13: write_words makes one write call carrying all the words of the
\* request, then one readback of the same address and the same number of words
\* and nothing else; when both calls succeeded it returns normally, and verified
\* is true exactly when every word of the range in memory equals the word that
\* was requested; the call raises only when a driver call raised.
C13_WriteVerifiedIffReadbackEqual ==
    LET w == write_call IN
    /\ Len(w.log) <= 2
    /\ Len(w.log) >= 1 =>
          /\ w.log[1].op = "write"
          /\ w.log[1].addr = w.addr
          /\ w.log[1].data = w.words
    /\ Len(w.log) = 2 =>
          /\ ~w.log[1].raised
          /\ w.log[2].op = "read"
          /\ w.log[2].addr = w.addr
          /\ w.log[2].count = Len(w.words)
    /\ w.pc = "done" =>
          /\ Len(w.log) = 2
          /\ ~w.log[2].raised
          /\ w.result.status = "ok"
          /\ w.result.verified <=>
                \A i \in 1..Len(w.words) : w.mem[w.addr + i - 1] = w.words[i]
    /\ w.pc = "raised" => w.log[Len(w.log)].raised
    /\ (Len(w.log) = 2 /\ ~w.log[2].raised) => w.pc \in {"return", "done"}

\* C13 witness: a two-word write whose first word was stored and whose second
\* was not returns verified = false.
C13_Witness ==
    /\ write_call.pc = "done"
    /\ Len(write_call.words) = 2
    /\ write_call.mem[write_call.addr] = write_call.words[1]
    /\ write_call.mem[write_call.addr + 1] # write_call.words[2]
    /\ write_call.result.status = "ok"
    /\ ~write_call.result.verified

\* C14: in a register snapshot loop the keys of the result are exactly the
\* requested registers whose read succeeded, each with the formatted value the
\* core holds in it; a failed read leaves its register out and the loop goes on
\* to the last name of the list; the loop ends with a normal result.
C14_PartialRegisterBatch ==
    LET c == regs_call
        visited == { c.names[i] : i \in 1..(c.k - 1) } IN
    /\ c.pc \in {"loop", "done"}
    /\ DOMAIN c.regs = visited \ c.failed
    /\ c.failed \subseteq visited
    /\ \A n \in DOMAIN c.regs : c.regs[n] = Hex08X(c.core[n])
    /\ c.pc = "done" =>
          /\ c.k = Len(c.names) + 1
          /\ c.result.status = "ok"
          /\ DOMAIN c.result.registers = { c.names[i] : i \in 1..Len(c.names) } \ c.failed
          /\ \A n \in DOMAIN c.result.registers :
                c.result.registers[n] = Hex08X(c.core[n])

\* C14 witness: a batch in which a read failed and a later register was
\* still read and returned.
C14_Witness ==
    /\ regs_call.pc = "done"
    /\ regs_call.handler = "break"
    /\ regs_call.failed = {"sp", "r0"}
    /\ DOMAIN regs_call.result.registers =
          {"pc", "lr", "r1", "r2", "r3", "r12", "xpsr", "msp", "psp", "control"}
    /\ regs_call.result.registers["control"] = <<"0", "x", "0", "0", "0", "0", "1", "0", "0", "C">>

\* C15 (as claimed): write_register leaves the target in the run state it
\* found: running at the call means running when the call has returned (stated
\* here for the calls in which no operation of the driver failed).
C15_WriteRegRestoresRunState ==
    (cmd = "write-reg" /\ pc = "returned" /\ result.status = "ok") => tstate = hist.entry

\* C16: read_registers halts a running target for the reads and resumes it
\* once before it returns, whether or not register reads failed; a target
\* halted at entry stays halted with no resume; the register loop never makes
\* the call fail.
C16_RegsRestoresRunState ==
    /\ (cmd = "regs" /\ AtOp /\ Prog[ip] = "read_regs") => tstate = "HALTED"
    /\ (cmd = "regs" /\ (pc = "finally" \/ (pc = "returned" /\ closes = 1))) =>
          /\ exc = "none"
          /\ result.status = "ok"
          /\ tstate = hist.entry
          /\ hist.resumes = (IF hist.entry = "RUNNING" THEN 1 ELSE 0)

\* C16 witness: the target was running, some register reads failed, and the
\* call returned with the target running again.
C16_Witness ==
    /\ cmd = "regs"
    /\ pc = "returned"
    /\ loc.partial
    /\ hist.entry = "RUNNING"
    /\ hist.resumes = 1
    /\ tstate = "RUNNING"

\* C17 (as claimed): the plain diagnose call leaves the target in the run
\* state it found (running before means running after; stated here for the
\* calls in which no operation of the driver failed), while a break_and_run
\* that decoded the fault state on a hit leaves the target halted.
C17_DiagnoseRestoresRunState ==
    /\ (cmd = "diagnose" /\ pc = "returned" /\ result.status = "ok") => tstate = hist.entry
    /\ (cmd = "break" /\ pc = "returned" /\ result.fault_info) => tstate = "HALTED"

\* Times the fault called `name` is in the decoded list.
Occurrences(name) ==
    Cardinality({ p \in 1..Len(fault_call.result.faults) :
                    fault_call.result.faults[p][1] = name })

\* C18: for the CFSR and HFSR values read, the decoded list names every table
\* bit that is set exactly once and no bit that is clear; the names stand in
\* the order of the CFSR table followed by the order of the HFSR table; the
\* list is the single placeholder "(none)" exactly when no table bit is set, and
\* holds nothing but table names otherwise.
C18_FaultListMatchesSetBits ==
    fault_call.pc = "done" =>
        LET f == fault_call
            list == f.result.faults
            table == cfsr_bits \o hfsr_bits
            IsSet(i) == IF i <= Len(cfsr_bits) THEN table[i].bit \in f.cfsr
                        ELSE table[i].bit \in f.hfsr
            Rank(name) == CHOOSE i \in 1..Len(table) : table[i].name = name
        IN  /\ \A i \in 1..Len(table) :
                  Occurrences(table[i].name) = (IF IsSet(i) THEN 1 ELSE 0)
            /\ Occurrences("(none)") = (IF \E i \in 1..Len(table) : IsSet(i) THEN 0 ELSE 1)
            /\ Len(list) >= 1
            /\ \A p \in 1..Len(list) :
                  \/ list[p][1] = "(none)" /\ Len(list) = 1
                  \/ \E i \in 1..Len(table) : table[i].name = list[p][1]
            /\ \A p, q \in 1..Len(list) :
                  (p < q /\ list[p][1] # "(none)") => Rank(list[p][1]) < Rank(list[q][1])

\* C18 witness: two configurable faults and a hard fault at once, with bits
\* outside the tables set as well, decoded in table order.
C18_Witness ==
    /\ fault_call.pc = "done"
    /\ ~fault_call.verbose
    /\ fault_call.cfsr = 0..31
    /\ fault_call.hfsr = 0..31
    /\ Len(fault_call.result.faults) = 19
    /\ fault_call.result.faults[1] = <<"IACCVIOL">>
    /\ fault_call.result.faults[17] = <<"DIVBYZERO">>
    /\ fault_call.result.faults[18] = <<"FORCED">>
    /\ fault_call.result.faults[19] = <<"VECTTBL">>

\* C19: with an empty request resolve_probe succeeds exactly when one probe
\* is connected and its identity is known, and then returns that probe's id and
\* identity; no probe, one probe of unknown identity, and several probes are
\* failures whose messages differ from one another.
C19_EmptyRequestNeedsOneKnownProbe ==
    (probe_call.pc = "done" /\ probe_call.mcu = << >>) =>
        LET probes == probe_call.probes
            r == probe_call.result
            none == << "no", "probe", "connected" >>
            unknown == << "mcu", "not", "detected", "give", "--mcu" >>
            several == { << "several", "probes", "give", "--mcu" >>,
                         << "unsupported", "format", "string", "passed", "to",
                            "NoneType.__format__" >> }
        IN  /\ r.status = "ok" <=> (Len(probes) = 1 /\ probes[1].mcu # << >>)
            /\ r.status = "ok" => (r.uid = probes[1].uid /\ r.mcu = probes[1].mcu)
            /\ Len(probes) = 0 => (r.status = "error" /\ r.text = none)
            /\ (Len(probes) = 1 /\ probes[1].mcu = << >>) =>
                  (r.status = "error" /\ r.text = unknown)
            /\ Len(probes) > 1 => (r.status = "error" /\ r.text \in several)
            /\ none # unknown
            /\ none \notin several
            /\ unknown \notin several

\* C19 witness: the one connected probe, of known identity, is selected.
C19_Witness ==
    /\ probe_call.pc = "done"
    /\ probe_call.mcu = << >>
    /\ Len(probe_call.probes) = 1
    /\ probe_call.result.status = "ok"
    /\ probe_call.result.uid = << "uid", 1 >>
    /\ probe_call.result.mcu = <<"S", "T", "M", "3", "2", "F", "4", "0", "7", "V", "G">>

\* C20: with a non-empty request the probe selected is the first, in the order
\* of enumeration, of known identity equal to the request without regard to
\* case; if there is none, the first whose identity begins with the request; if
\* there is none, the first whose identity's first ten characters begin the
\* request; if there is none the call fails.  Probes of unknown identity are
\* never selected.
C20_MatchOrderExactPrefixReverse ==
    (probe_call.pc = "done" /\ probe_call.mcu # << >> /\ probe_call.probes # << >>) =>
        LET probes == probe_call.probes
            r == probe_call.result
            req == str_lower(probe_call.mcu)
            Known(i) == probes[i].mcu # << >>
            Id(i) == str_lower(probes[i].mcu)
            Exact(i) == Known(i) /\ Id(i) = req
            Prefix(i) == Known(i) /\ Len(req) <= Len(Id(i))
                           /\ SubSeq(Id(i), 1, Len(req)) = req
            Lead(i) == IF Len(Id(i)) > 10 THEN SubSeq(Id(i), 1, 10) ELSE Id(i)
            Reverse(i) == Known(i) /\ Len(Lead(i)) <= Len(req)
                            /\ SubSeq(req, 1, Len(Lead(i))) = Lead(i)
            I == 1..Len(probes)
            Selected(i) == r.status = "ok" /\ r.uid = probes[i].uid
        IN  /\ \A i \in I :
                  (Exact(i) /\ \A j \in 1..(i - 1) : ~Exact(j)) => Selected(i)
            /\ \A i \in I :
                  (/\ \A j \in I : ~Exact(j)
                   /\ Prefix(i)
                   /\ \A j \in 1..(i - 1) : ~Prefix(j)) => Selected(i)
            /\ \A i \in I :
                  (/\ \A j \in I : ~Exact(j) /\ ~Prefix(j)
                   /\ Reverse(i)
                   /\ \A j \in 1..(i - 1) : ~Reverse(j)) => Selected(i)
            /\ (\A j \in I : ~Exact(j) /\ ~Prefix(j) /\ ~Reverse(j)) => r.status = "error"
            /\ \A i \in I : Selected(i) => Known(i)

\* C20 witness: the second probe matches the request exactly (in another case)
\* and is selected although the first probe matches by prefix.
C20_Witness ==
    /\ probe_call.pc = "done"
    /\ probe_call.mcu = <<"S", "T", "M", "3", "2", "F", "4", "0", "7">>
    /\ Len(probe_call.probes) = 2
    /\ probe_call.probes[1].mcu = <<"s", "t", "m", "3", "2", "f", "4", "0", "7", "v", "g">>
    /\ probe_call.probes[2].mcu = <<"s", "t", "m", "3", "2", "f", "4", "0", "7">>
    /\ probe_call.result.status = "ok"
    /\ probe_call.result.uid = << "uid", 2 >>

\* C21: list_probes calls the ID-code detection for a probe only when neither
\* the board metadata nor the cache loaded for the call gives an identity; and
\* a probe whose detection succeeded in an earlier call is listed with that
\* cached identity, without a detection connection.
C21_DetectionOnlyWhenUnknown ==
    LET g == registry IN
    g.pc \in {"loop", "returned", "raised"} /\ g.error # "AttributeError" =>
        /\ \A u \in 1..MaxProbes :
             g.outcome[u] # "not_run" =>
                /\ detect_mcu_from_board_info(g.board[u]) = "None"
                /\ g.cache[u] = "absent"
                /\ g.detected_before[u] = "absent"
        /\ \A k \in DOMAIN g.result :
             g.detected_before[g.result[k].uid] # "absent" =>
                g.result[k].mcu = g.detected_before[g.result[k].uid]

\* C21 witness: a second call lists a probe with the identity its detection
\* gave in the first call, and no detection ran for it.
C21_Witness ==
    /\ registry.pc = "returned"
    /\ \E k \in DOMAIN registry.result :
         /\ registry.detected_before[registry.result[k].uid] = "stm32h750xx"
         /\ registry.result[k].mcu = "stm32h750xx"
         /\ registry.outcome[registry.result[k].uid] = "not_run"

\* C22: when list_probes has returned, the cache file maps every listed probe
\* with an identity to that identity, and every entry the file had before the
\* call for a probe the call did not write is unchanged.
C22_CacheHoldsListedIdentities ==
    LET g == registry IN
    g.pc = "returned" =>
        /\ \A k \in DOMAIN g.result :
             g.result[k].mcu # "None" =>
                /\ g.file.shape = "dict"
                /\ g.file.probes[g.result[k].uid] = g.result[k].mcu
        /\ \A u \in 1..MaxProbes :
             (load_probe_cache(g.before).probes[u] # "absent" /\ u \notin g.updated) =>
                /\ g.file.shape = "dict"
                /\ g.file.probes[u] = load_probe_cache(g.before).probes[u]

\* C22 witness: two probes, one cached and one newly detected; the file holds
\* both afterwards.
C22_Witness ==
    /\ registry.pc = "returned"
    /\ Len(registry.result) = 2
    /\ \E u, v \in 1..MaxProbes :
         /\ registry.outcome[u] = "not_run" /\ registry.before.probes[u] = "stm32f103xb"
         /\ registry.outcome[v] = "identified"
         /\ registry.file.probes[u] = "stm32f103xb"
         /\ registry.file.probes[v] = "stm32h750xx"

\* C23 (as claimed): whatever the cache file holds, load_probe_cache does not
\* raise; on a file that is missing or not of the expected shape list_probes
\* goes on with the empty mapping.
C23_CacheLoadNeverFails ==
    LET g == registry IN
    (g.pc \in {"loop", "returned", "raised"} /\ g.before.shape # "dict") =>
        /\ g.error # "AttributeError"
        /\ \A u \in 1..MaxProbes : g.cache[u] = "absent"

\* C25 (as claimed): a detection that fails at the open, the reads, the reset
\* or the close does not fail list_probes; the probe is listed with identity
\* None and the call writes no cache entry for it.
C25_DetectionFailureDegrades ==
    LET g == registry IN
    \A u \in 1..MaxProbes :
        g.outcome[u] \in {"open_failed", "read_failed", "reset_failed", "close_failed"} =>
            /\ g.pc # "raised"
            /\ u \notin g.updated
            /\ \A k \in DOMAIN g.result :
                 g.result[k].uid = u => g.result[k].mcu = "None"

\* C24 (as claimed): when both writers are done, the cache file is the whole
\* document of the writer whose save ended last, that is its own entry and
\* the entries it loaded and nothing else; and the other writer's entry is
\* missing from it only if the other writer's save ended after that load.
C24_LastWriterWinsWhole ==
    LET g == writers IN
    (\A w \in 1..2 : g.pc[w] = "done") =>
        LET last == g.saved[2]
            other == g.saved[1]
        IN  /\ g.text = json_dump(g.cache[last], g.entry_len)
            /\ (\A i \in DOMAIN g.cache[last] : g.cache[last][i] # other) =>
                   other \notin g.saved_at_load[last]

\* C26 (as claimed): for each requested name the resolver returns the address
\* and size of the first symbol, in the order of the symbol table, whose name
\* contains the requested name; a later symbol never takes precedence, and
\* what one name resolves to does not depend on the other names.
C26_FirstSubstringMatch ==
    LET c == symbols_call
        Hits(k) == { i \in DOMAIN c.lines : Contains(c.lines[i].name, c.names[k]) }
        First(k) == c.lines[CHOOSE i \in Hits(k) : \A j \in Hits(k) : i <= j]
    IN  c.pc = "done" =>
          /\ (\A k \in DOMAIN c.names : Hits(k) # {}) => c.result.status = "ok"
          /\ c.result.status = "ok" =>
                \A k \in DOMAIN c.names :
                   /\ Hits(k) # {}
                   /\ c.result.found[k] = [ addr |-> First(k).addr, size |-> First(k).size ]

\* C27 (as claimed): a requested name that no symbol contains makes the
\* resolution fail with a not-found error for that symbol; in the commands that
\* read symbols this failure comes before any session was opened, so that the
\* target was neither halted nor read.
C27_SymbolFailureBeforeAnySession ==
    (pc = "returned" /\ result.kind = "symbol") =>
        /\ result.status = "error"
        /\ closes = 0 /\ ~mainOpen
        /\ ~hist.detected

\* C28: cmd_step halts a running target before the first step, executes
\* exactly count steps, and returns count records numbered 1..count, each with
\* the pc read right before and right after its step, then the register
\* snapshot taken after the last step; the target is halted at the return.
C28_StepRecordsCountSteps ==
    LET c == step_call IN
    /\ \A k \in DOMAIN c.executed : c.executed[k].state = "HALTED"
    /\ c.pc = "done" =>
          /\ Len(c.executed) = c.count
          /\ Len(c.steps) = c.count
          /\ \A k \in 1..c.count :
                c.steps[k] = [ step |-> k,
                               pc_before |-> Hex08X(c.executed[k].before),
                               pc_after |-> Hex08X(c.executed[k].after) ]
          /\ c.registers.pc \in { <<"m">>, Hex08X(c.target_pc) }
          /\ c.state = "HALTED" /\ c.result_state = "HALTED"

\* C28 witness: a running target, count 2: two records, the second starting
\* where the first ended, at another address.
C28_Witness ==
    /\ step_call.pc = "done"
    /\ step_call.entry = "RUNNING"
    /\ step_call.count = 2
    /\ Len(step_call.steps) = 2
    /\ step_call.steps[2].step = 2
    /\ step_call.steps[1].pc_after = step_call.steps[2].pc_before
    /\ step_call.steps[2].pc_after # step_call.steps[2].pc_before

\* C29: once mark_tested has run in a session, the Stop hook's changed_files
\* is empty (exit 0) as long as lib/ is as it was then, and otherwise exactly
\* the paths that differ from the tested snapshot, whatever the baseline; in a
\* session whose save_snapshot ran and that has not marked, the reference is
\* that session's baseline, not a tested snapshot left by an earlier session.
C29_ReferenceIsNewestSnapshot ==
    LET c == checksum
        Differ(then) == { p \in 1..2 : c.lib[p] # then[p] }
    IN  c.pc = "stop" =>
          /\ c.marked => c.changed = Differ(c.at_mark)
          /\ (c.started /\ ~c.marked) => c.changed = Differ(c.at_start)
          /\ (c.marked \/ c.started) => (c.exit = 0 <=> c.changed = {})

\* C29 witness: the baseline differs from the tested snapshot, a file changed
\* after mark_tested, and the Stop hook blocks with that path alone.
C29_Witness ==
    /\ checksum.pc = "stop"
    /\ checksum.marked /\ checksum.started
    /\ checksum.at_start # checksum.at_mark
    /\ Cardinality(checksum.changed) = 1
    /\ checksum.exit = 2
    /\ checksum.changed # { p \in 1..2 : checksum.lib[p] # checksum.at_start[p] }

\* C30 (as claimed): a run_tests call or an xmake test command whose tests did
\* not pass leaves the tested snapshot as it was.
C30_TestedOnlyAfterPass ==
    (checksum.pc = "post_test" /\ ~checksum.run_passed) =>
        checksum.tested[checksum.sid] = checksum.tested_before

\* C31 (as claimed): when break_and_run resumes the target it has armed the
\* breakpoint and then applied every requested pre-action, in the order memory
\* writes, reset-and-re-halt (with the breakpoint armed again), program-counter
\* override; with both the reset and the override requested, both are applied.
C31_AllPreActionsApplied ==
    (cmd = "break" /\ hist.resumes >= 1) =>
        hist.pre = <<"arm">> \o Rep(args.nwrites, <<"write">>)
                     \o (IF args.do_reset THEN <<"reset", "arm">> ELSE << >>)
                     \o (IF args.set_pc THEN <<"set_pc">> ELSE << >>)

\* C32: whenever break_and_run resumes the target the breakpoint is armed; with
\* the reset-and-re-halt pre-action, which clears the breakpoint unit, it was
\* set again between the reset and the resume.
C32_BreakpointArmedAtResume ==
    (cmd = "break" /\ hist.resumes >= 1) =>
        /\ hist.bp_at_resume
        /\ args.do_reset =>
              \E i \in DOMAIN hist.pre :
                 /\ hist.pre[i] = "reset"
                 /\ i < Len(hist.pre) /\ hist.pre[i + 1] = "arm"

\* C32 witness: a break with the reset pre-action has resumed, armed.
C32_Witness ==
    /\ cmd = "break" /\ args.do_reset
    /\ hist.resumes = 1 /\ hist.bp_at_resume
    /\ tstate = "RUNNING" /\ bp

\* C33: when watch_and_run has produced its HIT or TIMEOUT result, the
\* watchpoint it set (once) has been removed, and on TIMEOUT the removal came
\* after the forced halt.
C33_WatchpointRemoved ==
    (cmd = "watch" /\ pc \in {"finally", "returned"} /\ result.status = "ok") =>
        /\ ~wp
        /\ hist.wp_sets = 1 /\ ~hist.wp_refused
        /\ tstate = "HALTED"
        /\ hist.wp_removed = (IF result.hit THEN "after_hit" ELSE "after_forced_halt")

\* C33 witness: a TIMEOUT result, the target halted by force and the
\* watchpoint removed, before the Session is closed.
C33_Witness ==
    /\ cmd = "watch" /\ pc = "finally" /\ result.status = "ok"
    /\ ~result.hit /\ loc.forced
    /\ hist.wp_removed = "after_forced_halt"
    /\ mainOpen /\ ~wp


C36_PayloadIsExactlyTheBlock ==
    (blocks_call # NoCall /\ blocks_call.pc = "done") =>
        LET c == blocks_call
            lower == << "0", "1", "2", "3", "4", "5", "6", "7", "8", "9",
                        "a", "b", "c", "d", "e", "f" >>
            Ceil4(n) == IF n % 4 = 0 THEN n \div 4 ELSE (n \div 4) + 1
        IN  /\ c.transfers = [ i \in 1..Len(c.blocks) |->
                                 [ addr |-> c.blocks[i].addr,
                                   count |-> Ceil4(c.blocks[i].size) ] ]
            /\ DOMAIN c.result = { c.blocks[i].key : i \in 1..Len(c.blocks) }
            /\ \A i \in 1..Len(c.blocks) :
                  LET b == c.blocks[i]
                      e == c.result[b.key]
                  IN  /\ Len(e.hex) = b.size
                      /\ Len(e.words) = Ceil4(b.size)
                      /\ \A j \in 1..b.size :
                            \* the byte at address b.addr + j - 1 is b.addr + j
                            e.hex[j] = << lower[((b.addr + j) \div 16) + 1],
                                          lower[((b.addr + j) % 16) + 1] >>

C36_Witness ==
    /\ blocks_call # NoCall
    /\ blocks_call.pc = "done"
    /\ Len(blocks_call.blocks) = 2
    /\ blocks_call.blocks[1].key = "b"
    /\ blocks_call.blocks[1].size = 5
    /\ blocks_call.blocks[1].addr = 4
    /\ blocks_call.blocks[2].key = "a"
    /\ blocks_call.blocks[2].size = 0
    /\ Len(blocks_call.result["b"].hex) = 5
    /\ Len(blocks_call.result["b"].words) = 2
    /\ blocks_call.result["a"].hex = << >>

\* C37: when the first ID code found has device identifier 0x449, the
\* identity is stm32f446xx if the part number of CPUID is that of a Cortex-M4
\* (0xC24) and stm32f74xxx otherwise; when the identifier is not in the table
\* the identity is the string unknown_stm32_devid_0x<id>_<core> with the
\* identifier in hexadecimal and the core type decoded from CPUID.
C37_SharedIdentifierSplitByCore ==
    (idcode_call # NoCall /\ idcode_call.pc = "done") =>
        LET c == idcode_call
            found == { k \in 1..3 : c.idcodes[k] > 0 }
            first == CHOOSE k \in found : \A j \in found : k <= j
            id == c.idcodes[first] % 4096
            m4 == c.cpuid = 1091551809
        IN  found # {} =>
              /\ id = 1097 => c.mcu = IF m4 THEN << "stm32f446xx" >> ELSE << "stm32f74xxx" >>
              /\ id = 1279 =>
                    /\ Len(c.mcu) >= 6
                    /\ SubSeq(c.mcu, 1, 5) = << "unknown_stm32_devid_0x", "4", "f", "f", "_" >>
                    /\ c.cpuid = 1091551809 => SubSeq(c.mcu, 6, Len(c.mcu)) = << "cortex-m4" >>
                    /\ c.cpuid = 1092600433 => SubSeq(c.mcu, 6, Len(c.mcu)) = << "cortex-m7" >>
                    /\ c.cpuid = 1091356161 => SubSeq(c.mcu, 6, Len(c.mcu)) = << "cortex-m0+" >>

C37_Witness ==
    /\ idcode_call # NoCall
    /\ idcode_call.pc = "done"
    /\ idcode_call.idcodes = << -1, 0, 268461129 >>
    /\ idcode_call.cpuid = 1091551809
    /\ idcode_call.mcu = << "stm32f446xx" >>

\* C38: in every step of every list_probes call, a probe whose cache entry
\* holds an identity keeps that identity, unless the probe's board metadata
\* gives another identity, which then is the one written: an identity found
\* by ID-code detection never takes the place of a cached one, and a probe
\* without board metadata keeps what the cache holds for it.
C38_CachedIdentityOverwrittenOnlyByBoard ==
    [][ \A u \in 1..MaxProbes :
          LET old == IF registry.file.shape = "dict"
                     THEN registry.file.probes[u] ELSE "absent"
              new == IF registry'.file.shape = "dict"
                     THEN registry'.file.probes[u] ELSE "absent"
          IN  (old # "absent" /\ new # old) =>
                 /\ registry.board[u] = "stm32f407vgtx"
                 /\ new = "stm32f407vg"
                 /\ registry'.outcome[u] = "not_run" ]_vars

C38_Witness ==
    /\ registry.pc = "returned"
    /\ registry.connected = {1, 2}
    /\ registry.before = [ shape |-> "dict",
                           probes |-> [ u \in 1..MaxProbes |-> "stm32f103xb" ] ]
    /\ registry.board[1] = "stm32f407vgtx"
    /\ registry.board[2] = "None"
    /\ registry.file.probes[1] = "stm32f407vg"
    /\ registry.file.probes[2] = "stm32f103xb"

\* C39 (as claimed): whenever resolve_probe returns, the identity it returns
\* is the known identity that list_probes reported for the probe whose id it
\* returns, with an empty request and in each of the three match passes.
C39_ReturnedIdentityIsTheProbes ==
    (probe_call.pc = "done" /\ probe_call.result.status = "ok") =>
        \E i \in 1..Len(probe_call.probes) :
            /\ probe_call.probes[i].uid = probe_call.result.uid
            /\ probe_call.probes[i].mcu # << >>
            /\ probe_call.result.mcu = probe_call.probes[i].mcu

\* C40: when a step of the recovery cycle fails (the open under reset, the
\* reset or the close raises), open_session ends at once with an error whose
\* text holds the first attempt's error, and the original open is not tried
\* again; and no open_session call opens more than three connections.
C40_RecoveryFailureEndsTheCall ==
    LET opens == { i \in 1..Len(oslog) : oslog[i].op = "open" }
        failed == { i \in 2..Len(oslog) :
                      oslog[i].mode = "under-reset" /\ oslog[i].err # NoErr
                      /\ i <= 4 }
    IN  /\ Cardinality(opens) <= 3
        /\ failed # {} =>
              /\ pc \in {"os_failed", "returned"}
              /\ failed = { Len(oslog) }
              /\ Cardinality(opens) = 2
              /\ ~mainOpen
              /\ result.status = "error"
              /\ result.kind = "recovery_failed"
              /\ result.first = oslog[1].err
              /\ Contains(result.msg, <<"error:">> \o oslog[1].err)
        /\ result.kind = "recovery_failed" => failed # {}

C40_Witness ==
    /\ pc = "os_failed"
    /\ Len(oslog) = 4
    /\ oslog[1].err = <<"transfer", "fault">>
    /\ oslog[4].op = "close"
    /\ oslog[4].err # NoErr
    /\ result.kind = "recovery_failed"
    /\ Contains(result.msg, <<"error:", "transfer", "fault">>)
====
